---- MODULE Spec2Model ----
(***************************************************************************)
(* A model of the Lingo compiler pipeline and stack VM of pkhead/graffiti: *)
(*   - parse_tokens   (src/src/lingo/lingo_lexer.cpp)                      *)
(*   - parse_ast      (src/src/lingo_ast.cpp)                              *)
(*   - the constant pool of the bytecode generator                         *)
(*                    (src/src/lingo/lingo_bcgen.cpp)                      *)
(*   - runner::run    (src/src/lingo/vm/vm.cpp)                            *)
(* Each component has its own specification (SpecLex, SpecParse, SpecGen,  *)
(* SpecVM); the variables of the other components stay at their initial    *)
(* values.  SpecLexFair is SpecLex with the loop of parse_tokens always    *)
(* taking its next step, SpecLexWord feeds the lexer one long word,        *)
(* SpecArith and SpecExpr run the arithmetic, branch and jump handlers and *)
(* the expression parser, and SpecFrame runs compiled chunks on the        *)
(* operand stack array of one runner, call after call.                     *)
(* In the lexer and the parser C strings are TLA+ strings and a            *)
(* character is a one-character string; in the generator and the VM a      *)
(* string is the sequence of its character codes.                          *)
(***************************************************************************)
EXTENDS Integers, Sequences, FiniteSets, TLC

(***************************************************************************)
(* Bounds of the model.                                                    *)
(***************************************************************************)
\* number of bytes the input stream delivers before it reports end of file
MaxInput == 4
\* number of lines of the script handed to the parser
MaxLines == 5
\* number of statements in the body of one handler
MaxBody == 2
\* number of statements of the handler handed to the bytecode generator
MaxGen == 3
\* number of instructions the VM executes
MaxExec == 5
\* number of instructions the VM executes of a program with arithmetic
MaxArith == 3
\* number of tokens of an expression handed to parse_expression
MaxExpr == 5
\* number of letters the stream delivers of one long word
MaxWord == 66

VARIABLES
    \* ---- lexer (parse_tokens) ----
    consumed,       \* the bytes stream.get() has delivered so far
    eofbit,         \* stream.eof()
    ch,             \* the current character
    parse_mode,     \* MODE_NONE, MODE_NUMBER, MODE_WORD, MODE_SYMBOL, MODE_STRING
    wordbuf,        \* wordbuf[0 .. wordbuf_i-1] as a sequence of characters
    num_is_float,
    make_symlit,
    strbuf,
    tmp_symbol,
    pos,            \* <<line, column>>
    word_pos,
    tokens,         \* the token vector (output of the lexer, input of the parser)
    lex_pc,         \* "loop", "comment" (inside the comment-skipping loop), "done", "error",
                    \* "undefined" (a write past the end of wordbuf)
    last_lexeme     \* history: kind of the last lexeme the lexer completed

lexvars == <<consumed, eofbit, ch, parse_mode, wordbuf, num_is_float,
             make_symlit, strbuf, tmp_symbol, pos, word_pos, lex_pc,
             last_lexeme>>

VARIABLES
    \* ---- parser (parse_ast) ----
    input_done,     \* the whole token vector has been delivered
    index,          \* token_reader::index
    scope,          \* script_scope: [properties, globals]
    handler_scope,  \* handler_scope: [globals, locals, params]
    func,           \* the ast_handler_decl under construction
    root,           \* ast_root: [properties, handlers]
    parse_pc,       \* "decl" (loop of parse_ast), "body" (statement loop of a
                    \* handler), "done" (returned true), "error" (returned false)
    error,          \* parse_error: [pos, msg]
    scope_at,       \* history: the script_scope each handler of root was parsed under
    introduced_at   \* history: the locals of each handler of root, in the order
                    \* of their insertion into handler_scope.locals

parsevars == <<input_done, index, scope, handler_scope, func, root,
               parse_pc, error, scope_at, introduced_at>>

VARIABLES
    \* ---- bytecode generator (generate_chunk) ----
    gen_scope,      \* gen_handler_scope: string_pool, instrs, chunk_consts,
                    \* local_name_refs, local_indices, next_local_idx, and how
                    \* generation has left the normal path (aborted, thrown)
    chunk_header,   \* bc::chunk_header: nargs, nconsts, ninstr, nlocals
    gen_pc,         \* "begin", "body" (loop over handler.body), "done",
                    \* "error" (gen_exception), "aborted" (assert),
                    \* "again" (the handler was compiled a second time)
    ndebug,         \* the build defines NDEBUG: assert() is compiled out
    gen_handler,    \* the ast_handler_decl: params, locals and the statements
                    \* of its body generated so far
    out,            \* the std::vector<uint8_t> generate_chunk fills
    out_again       \* the vector a second compilation of the handler fills

genvars == <<gen_scope, chunk_header, gen_pc, ndebug, gen_handler, out,
             out_again>>

VARIABLES
    \* ---- VM (vm::runner) ----
    _stack,         \* _stack[0 .. _stack_top - 1]
    _symbol_intern, \* the entries [key, value] of the intern table
    heap,           \* the vm::string objects made by `new`, by reference
    vm_program,     \* the chunks of the script this runner is given
    vm_chunk,       \* the chunk run() executes
    ip,             \* run()'s ip, as an index into the chunk's instructions
    vm_pc,          \* "idle" (run() is not active), "run", "terminated" (an
                    \* exception left run())
    executed,       \* history: number of instructions executed
    sym_loads,      \* history: the LOADCs of symbol constants executed
    last_eq,        \* history: the operands and the result of the EQ executed last
    last_op         \* history: the instruction executed last: its opcode, the
                    \* two topmost values and ip before it, and its outcome

vmvars == <<_stack, _symbol_intern, heap, vm_program, vm_chunk, ip, vm_pc,
            executed, sym_loads, last_eq, last_op>>

\* the variables each component leaves alone
VARIABLES
    \* ---- parse_expression called on its own ----
    expr_pc,        \* "idle", "ready" (the tokens of a line are there),
                    \* "parsed" (parse_expression has returned or thrown)
    expr_result     \* what parse_expression returned (the node and the
                    \* reader's index) or threw

exprvars == <<expr_pc, expr_result>>

VARIABLES
    \* ---- the input stream of the lexer ----
    input_kind      \* "script": bytes of a script, MaxInput at most;
                    \* "word": the letters of one long word
streamvars == <<input_kind>>
VARIABLES
    \* ---- vm::runner at the level of its arrays, running a generated chunk ----
    run_code,       \* the chunk handed to run(): its instructions and constants
    mem,            \* the array _stack: mem[k] is _stack[k - 1]
    _stack_top,     \* _stack_top - _stack
    stack_base,     \* _cstack[0].stack_base
    run_ip,         \* run()'s ip, as an index into the chunk's instructions
    run_pc,         \* "idle" (run() is not active), "run", "error" (run()
                    \* returned 1), "undefined" (undefined behaviour)
    entry_top,      \* history: _stack_top when run() was entered
    stored,         \* history: the value STOREL wrote last to each local
                    \* since run() was entered
    run_last        \* history: the instruction executed last and its outcome
framevars == <<run_code, mem, _stack_top, stack_base, run_ip, run_pc, entry_top,
               stored, run_last>>
nonlexvars == <<parsevars, genvars, vmvars, exprvars, streamvars, framevars>>
nonparsevars == <<lexvars, genvars, vmvars, exprvars, streamvars, framevars>>
nongenvars == <<lexvars, tokens, parsevars, vmvars, exprvars, streamvars, framevars>>
nonvmvars == <<lexvars, tokens, parsevars, genvars, exprvars, streamvars, framevars>>
nonexprvars == <<lexvars, parsevars, genvars, vmvars, streamvars, framevars>>
nonframevars == <<lexvars, tokens, parsevars, genvars, vmvars, exprvars, streamvars>>


(***************************************************************************)
(* Characters.                                                             *)
(***************************************************************************)
\* what (char)stream.get() yields at end of file: (char)EOF
EOFCH == "<EOF>"

UpperSeq == <<"A","B","C","D","E","F","G","H","I","J","K","L","M",
              "N","O","P","Q","R","S","T","U","V","W","X","Y","Z">>
LowerSeq == <<"a","b","c","d","e","f","g","h","i","j","k","l","m",
              "n","o","p","q","r","s","t","u","v","w","x","y","z">>
DigitSeq == <<"0","1","2","3","4","5","6","7","8","9">>

SeqRange(s) == { s[i] : i \in 1..Len(s) }

isspace(c) == c \in {" ", "\n", "\t", "\r"}
isalpha(c) == c \in SeqRange(UpperSeq) \cup SeqRange(LowerSeq)
isdigit(c) == c \in SeqRange(DigitSeq)
isalnum(c) == isalpha(c) \/ isdigit(c)
tolower(c) ==
    IF c \in SeqRange(UpperSeq)
    THEN LowerSeq[CHOOSE i \in 1..Len(UpperSeq) : UpperSeq[i] = c]
    ELSE c
DigitVal(c) == (CHOOSE i \in 1..Len(DigitSeq) : DigitSeq[i] = c) - 1

\* a character buffer as a C string
RECURSIVE Str(_)
Str(s) == IF s = <<>> THEN "" ELSE Head(s) \o Str(Tail(s))

\* the bytes the modelled input stream may deliver
Alphabet == {"a", "B", "1", ".", " ", "\n", "#", "\\", "-", "\""}

(***************************************************************************)
(* Tokens.  `str` holds tok.str and, for keywords and symbols, the         *)
(* spelling of tok.keyword / tok.symbol.                                   *)
(***************************************************************************)
symbol_pairs == <<
    <<"SYMBOL_LE", "<=">>, <<"SYMBOL_GE", ">=">>, <<"SYMBOL_NEQUAL", "<>">>,
    <<"SYMBOL_COMMENT", "--">>, <<"SYMBOL_DOUBLE_AMPERSAND", "&&">>,
    <<"SYMBOL_RANGE", "..">>,
    <<"SYMBOL_COMMA", ",">>, <<"SYMBOL_PERIOD", ".">>, <<"SYMBOL_MINUS", "-">>,
    <<"SYMBOL_PLUS", "+">>, <<"SYMBOL_SLASH", "/">>, <<"SYMBOL_STAR", "*">>,
    <<"SYMBOL_AMPERSAND", "&">>, <<"SYMBOL_POUND", "#">>,
    <<"SYMBOL_LPAREN", "(">>, <<"SYMBOL_RPAREN", ")">>,
    <<"SYMBOL_LBRACKET", "[">>, <<"SYMBOL_RBRACKET", "]">>,
    <<"SYMBOL_LBRACE", "{">>, <<"SYMBOL_RBRACE", "}">>,
    <<"SYMBOL_COLON", ":">>, <<"SYMBOL_EQUAL", "=">>,
    <<"SYMBOL_LT", "<">>, <<"SYMBOL_GT", ">">>, <<"SYMBOL_LINE_CONT", "\\">> >>

keyword_pairs == <<
    <<"KEYWORD_ON", "on">>, <<"KEYWORD_ELSE", "else">>, <<"KEYWORD_THEN", "then">>,
    <<"KEYWORD_AND", "and">>, <<"KEYWORD_OR", "or">>, <<"KEYWORD_NOT", "not">>,
    <<"KEYWORD_MOD", "mod">> >>

str_to_word_id == {"return", "end", "next", "exit", "if", "repeat", "with",
    "to", "down", "while", "case", "otherwise", "the", "of", "in", "put",
    "after", "before", "type", "number", "integer", "string", "point",
    "rect", "image", "global", "property"}

NoPos == <<1, 1>>
NoNumber == <<0, 0>>

Tok(type, str, word_id, integer, number, p) ==
    [type |-> type, str |-> str, word_id |-> word_id, integer |-> integer,
     number |-> number, pos |-> p]

make_keyword(v, p) == Tok("TOKEN_KEYWORD", v, "", 0, NoNumber, p)
make_integer(v, p) == Tok("TOKEN_INTEGER", "", "", v, NoNumber, p)
make_symbol(v, p) == Tok("TOKEN_SYMBOL", v, "", 0, NoNumber, p)
make_float(v, p) == Tok("TOKEN_FLOAT", "", "", 0, v, p)
make_word(v, p) ==
    Tok("TOKEN_WORD", v, IF v \in str_to_word_id THEN v ELSE "WORD_ID_UNKNOWN",
        0, NoNumber, p)
make_string(v, p) == Tok("TOKEN_STRING", v, "", 0, NoNumber, p)
make_symbol_literal(v, p) == Tok("TOKEN_SYMBOL_LITERAL", v, "", 0, NoNumber, p)
make_line_end(p) == Tok("TOKEN_LINE_END", "", "", 0, NoNumber, p)

\* identify_keyword: the keyword enumerator of a spelling, or "" (false)
identify_keyword(s) ==
    IF \E i \in 1..Len(keyword_pairs) : keyword_pairs[i][2] = s
    THEN keyword_pairs[CHOOSE i \in 1..Len(keyword_pairs) : keyword_pairs[i][2] = s][1]
    ELSE ""

identify_symbol(s) ==
    IF \E i \in 1..Len(symbol_pairs) : symbol_pairs[i][2] = s
    THEN symbol_pairs[CHOOSE i \in 1..Len(symbol_pairs) : symbol_pairs[i][2] = s][1]
    ELSE "SYMBOL_INVALID"

symbol_to_str(e) ==
    symbol_pairs[CHOOSE i \in 1..Len(symbol_pairs) : symbol_pairs[i][1] = e][2]
keyword_to_str(e) ==
    keyword_pairs[CHOOSE i \in 1..Len(keyword_pairs) : keyword_pairs[i][1] = e][2]

is_a(tok, type) == tok.type = type
is_symbol(tok, e) == tok.type = "TOKEN_SYMBOL" /\ tok.str = symbol_to_str(e)
is_keyword(tok, e) == tok.type = "TOKEN_KEYWORD" /\ tok.str = keyword_to_str(e)
is_word(tok, id) == tok.type = "TOKEN_WORD" /\ tok.word_id = id

(***************************************************************************)
(* strtol / strtod on the number buffer.  The buffer of MODE_NUMBER starts *)
(* with a digit and holds only letters, digits and '.'.                    *)
(***************************************************************************)
RECURSIVE DigitPrefixLen(_)
DigitPrefixLen(s) ==
    IF s # <<>> /\ isdigit(Head(s)) THEN 1 + DigitPrefixLen(Tail(s)) ELSE 0

RECURSIVE DecVal(_, _)
DecVal(s, acc) ==
    IF s = <<>> THEN acc ELSE DecVal(Tail(s), acc * 10 + DigitVal(Head(s)))

Drop(s, n) == SubSeq(s, n + 1, Len(s))
Take(s, n) == SubSeq(s, 1, n)

\* strtol(wordbuf, &str_end, 10): [end |-> number of characters converted,
\* v |-> value].  The buffers of the model stay far below 2^31.
strtol(s) ==
    LET n == DigitPrefixLen(s)
    IN  [end |-> n, v |-> DecVal(Take(s, n), 0)]

RECURSIVE Pow10(_)
Pow10(k) == IF k = 0 THEN 1 ELSE 10 * Pow10(k - 1)

\* a decimal m / 10^k in lowest form (the double it denotes)
RECURSIVE NormDec(_, _)
NormDec(m, k) ==
    IF m = 0 THEN <<0, 0>>
    ELSE IF k > 0 /\ m % 10 = 0 THEN NormDec(m \div 10, k - 1)
    ELSE <<m, k>>

\* strtod(wordbuf, &str_end): digits [. digits] [e digits]
strtod(s) ==
    LET ni    == DigitPrefixLen(s)
        rest1 == Drop(s, ni)
        dot   == rest1 # <<>> /\ Head(rest1) = "."
        rest2 == IF dot THEN Tail(rest1) ELSE rest1
        nf    == IF dot THEN DigitPrefixLen(rest2) ELSE 0
        rest3 == Drop(rest2, nf)
        mant  == DecVal(Take(s, ni) \o Take(rest2, nf), 0)
        hasE  == /\ Len(rest3) >= 2
                 /\ Head(rest3) \in {"e", "E"}
                 /\ isdigit(rest3[2])
        ne    == IF hasE THEN DigitPrefixLen(Tail(rest3)) ELSE 0
        ex    == IF hasE THEN DecVal(Take(Tail(rest3), ne), 0) ELSE 0
        used  == ni + (IF dot THEN 1 + nf ELSE 0) + (IF hasE THEN 1 + ne ELSE 0)
    IN  [end |-> used,
         v   |-> IF ex >= nf THEN NormDec(mant * Pow10(ex - nf), 0)
                 ELSE NormDec(mant, nf - ex)]

(***************************************************************************)
(* parse_tokens.                                                           *)
(***************************************************************************)
\* stream.get() either delivers one more byte or hits end of file
GetChoices ==
    IF input_kind = "word"
    THEN (IF Len(consumed) < MaxWord THEN {"a", EOFCH} ELSE {EOFCH})
    ELSE (IF Len(consumed) < MaxInput THEN Alphabet \cup {EOFCH} ELSE {EOFCH})

\* char wordbuf[64]
WordbufSize == 64

\* wordbuf[wordbuf_i + more] is an element of the array
wordbuf_holds(more) == Len(wordbuf) + more < WordbufSize

\* a write past the end of wordbuf: the behaviour is undefined from here on
WordbufOverrun ==
    /\ lex_pc' = "undefined"
    /\ UNCHANGED <<consumed, eofbit, ch, parse_mode, wordbuf, num_is_float,
                   make_symlit, strbuf, tmp_symbol, pos, word_pos, last_lexeme,
                   tokens>>

InitLexVars ==
    /\ \E c \in Alphabet \cup {EOFCH} :
          /\ ch = c
          /\ eofbit = (c = EOFCH)
          /\ consumed = IF c = EOFCH THEN <<>> ELSE <<c>>
    /\ parse_mode = "MODE_NONE"
    /\ wordbuf = <<>>
    /\ num_is_float = FALSE
    /\ make_symlit = FALSE
    /\ strbuf = ""
    /\ tmp_symbol = "SYMBOL_INVALID"
    /\ pos = <<1, 1>>
    /\ word_pos = <<1, 1>>
    /\ lex_pc = "loop"
    /\ last_lexeme = "none"

\* the lambda next_char
next_char ==
    IF eofbit
    THEN /\ ch' = "\n"
         /\ UNCHANGED <<consumed, eofbit, pos>>
    ELSE \E c \in GetChoices :
            /\ ch' = c
            /\ eofbit' = (c = EOFCH)
            /\ consumed' = IF c = EOFCH THEN consumed ELSE Append(consumed, c)
            /\ pos' = IF c = "\n" THEN <<pos[1] + 1, 0>> ELSE <<pos[1], pos[2] + 1>>

same_char == UNCHANGED <<consumed, eofbit, ch, pos>>

pop_back(v) == SubSeq(v, 1, Len(v) - 1)
back(v) == v[Len(v)]

check_line_cont_never(toks) == FALSE

\* the lambda check_line_cont
check_line_cont(toks) ==
    IF Len(toks) = 0 THEN FALSE
    ELSE LET tok == toks[Len(toks)]
         IN  tok.type = "TOKEN_SYMBOL" /\ tok.str = symbol_to_str("SYMBOL_LINE_CONT")

on_newline_always(toks, p) ==
    IF check_line_cont(toks) THEN pop_back(toks)
    ELSE Append(toks, make_line_end(p))

\* MODE_NONE on '\n': retract a line continuation, else emit a LineEnd
\* unless it would be the first token or follow another LineEnd
on_newline(toks, p) ==
    IF check_line_cont(toks)
    THEN pop_back(toks)
    ELSE IF Len(toks) > 0 /\ ~is_a(back(toks), "TOKEN_LINE_END")
         THEN Append(toks, make_line_end(p))
         ELSE toks

word_token_plain(text, symlit, p) ==
    IF identify_keyword(text) # "" THEN make_keyword(text, p)
    ELSE make_word(text, p)

\* MODE_WORD at the end of the run: the token the word becomes
word_token(text, symlit, p) ==
    IF symlit THEN make_symbol_literal(text, p)
    ELSE IF identify_keyword(text) # ""
         THEN make_keyword(text, p)
         ELSE make_word(text, p)

\* the loop runs unless (stream.eof() && parse_mode == MODE_NONE)
LoopRuns == lex_pc = "loop" /\ ~(eofbit /\ parse_mode = "MODE_NONE")

LexNone ==
    /\ LoopRuns
    /\ parse_mode = "MODE_NONE"
    /\ IF isspace(ch)
       THEN /\ tokens' = IF ch = "\n" THEN on_newline(tokens, pos) ELSE tokens
            /\ next_char
            /\ UNCHANGED <<parse_mode, word_pos, strbuf, wordbuf, num_is_float,
                           tmp_symbol>>
       ELSE IF ch = "\""
       THEN /\ parse_mode' = "MODE_STRING"
            /\ word_pos' = pos
            /\ next_char
            /\ strbuf' = ""
            /\ UNCHANGED <<tokens, wordbuf, num_is_float, tmp_symbol>>
       ELSE /\ wordbuf' = <<>>
            /\ word_pos' = pos
            /\ IF isalpha(ch) \/ ch = "_"
               THEN /\ parse_mode' = "MODE_WORD"
                    /\ UNCHANGED <<num_is_float, tmp_symbol>>
               ELSE IF isdigit(ch)
               THEN /\ parse_mode' = "MODE_NUMBER"
                    /\ num_is_float' = FALSE
                    /\ UNCHANGED tmp_symbol
               ELSE /\ parse_mode' = "MODE_SYMBOL"
                    /\ tmp_symbol' = "SYMBOL_INVALID"
                    /\ UNCHANGED num_is_float
            /\ same_char
            /\ UNCHANGED <<tokens, strbuf>>
    /\ UNCHANGED <<make_symlit, lex_pc, last_lexeme>>
    /\ UNCHANGED nonlexvars

LexNumber ==
    /\ LoopRuns
    /\ parse_mode = "MODE_NUMBER"
    /\ \/ /\ wordbuf_holds(0)
          /\ make_symlit' = FALSE
          /\ IF ~isalnum(ch) /\ ch # "."
             THEN LET conv == IF num_is_float THEN strtod(wordbuf) ELSE strtol(wordbuf)
                  IN  /\ wordbuf' = Append(wordbuf, "\\0")
                      /\ IF conv.end # Len(wordbuf)
                         THEN \* conversion failed: *error is set, return false
                              /\ lex_pc' = "error"
                              /\ UNCHANGED <<tokens, parse_mode, last_lexeme>>
                         ELSE /\ tokens' = Append(tokens,
                                      IF num_is_float THEN make_float(conv.v, word_pos)
                                      ELSE make_integer(conv.v, word_pos))
                              /\ parse_mode' = "MODE_NONE"
                              /\ last_lexeme' = "number"
                              /\ UNCHANGED lex_pc
                      /\ same_char
                      /\ UNCHANGED num_is_float
             ELSE /\ num_is_float' = (num_is_float \/ ch = ".")
                  /\ wordbuf' = Append(wordbuf, ch)
                  /\ next_char
                  /\ UNCHANGED <<tokens, parse_mode, lex_pc, last_lexeme>>
          /\ UNCHANGED <<strbuf, tmp_symbol, word_pos>>
       \/ /\ ~wordbuf_holds(0)
          /\ WordbufOverrun
    /\ UNCHANGED nonlexvars

LexWord ==
    /\ LoopRuns
    /\ parse_mode = "MODE_WORD"
    /\ \/ /\ wordbuf_holds(0)
          /\ LET lc == tolower(ch)
             IN  IF ~(isalnum(lc) \/ lc = "_")
                 THEN LET text == Str(wordbuf)
                      IN  /\ wordbuf' = Append(wordbuf, "\\0")
                          /\ tokens' = Append(tokens, word_token(text, make_symlit, word_pos))
                          /\ parse_mode' = "MODE_NONE"
                          /\ make_symlit' = FALSE
                          /\ ch' = lc
                          /\ last_lexeme' = "word"
                          /\ UNCHANGED <<consumed, eofbit, pos>>
                 ELSE /\ wordbuf' = Append(wordbuf, lc)
                      /\ next_char
                      /\ UNCHANGED <<tokens, parse_mode, make_symlit, last_lexeme>>
          /\ UNCHANGED <<strbuf, tmp_symbol, word_pos, num_is_float, lex_pc>>
       \/ /\ ~wordbuf_holds(0)
          /\ WordbufOverrun
    /\ UNCHANGED nonlexvars

LexSymbol ==
    /\ LoopRuns
    /\ parse_mode = "MODE_SYMBOL"
    /\ \/ /\ wordbuf_holds(1)
          /\ LET buf    == Append(wordbuf, ch)
                 symbol == identify_symbol(Str(buf))
             IN  /\ wordbuf' = buf
                 /\ IF symbol = "SYMBOL_INVALID"
                    THEN IF tmp_symbol = "SYMBOL_INVALID"
                         THEN \* "invalid symbol": *error is set, return false
                              /\ lex_pc' = "error"
                              /\ make_symlit' = FALSE
                              /\ UNCHANGED <<tokens, parse_mode, last_lexeme>>
                         ELSE /\ IF tmp_symbol = "SYMBOL_COMMENT"
                                 THEN \* enter `while (ch != '\n') next_char();`
                                      /\ lex_pc' = "comment"
                                      /\ make_symlit' = FALSE
                                      /\ UNCHANGED <<tokens, parse_mode>>
                                 ELSE IF tmp_symbol = "SYMBOL_POUND"
                                 THEN /\ make_symlit' = TRUE
                                      /\ parse_mode' = "MODE_NONE"
                                      /\ UNCHANGED <<tokens, lex_pc>>
                                 ELSE /\ tokens' = Append(tokens,
                                            make_symbol(symbol_to_str(tmp_symbol), word_pos))
                                      /\ make_symlit' = FALSE
                                      /\ parse_mode' = "MODE_NONE"
                                      /\ UNCHANGED lex_pc
                              /\ last_lexeme' = tmp_symbol
                         /\ same_char
                         /\ UNCHANGED tmp_symbol
                    ELSE /\ tmp_symbol' = symbol
                         /\ make_symlit' = FALSE
                         /\ next_char
                         /\ UNCHANGED <<tokens, parse_mode, lex_pc, last_lexeme>>
          /\ UNCHANGED <<strbuf, word_pos, num_is_float>>
       \/ /\ ~wordbuf_holds(1)
          /\ WordbufOverrun
    /\ UNCHANGED nonlexvars

\* one iteration of `while (ch != '\n') next_char();` of a comment
LexComment ==
    /\ lex_pc = "comment"
    /\ IF ch # "\n"
       THEN /\ next_char
            /\ UNCHANGED <<lex_pc, parse_mode>>
       ELSE /\ lex_pc' = "loop"
            /\ parse_mode' = "MODE_NONE"
            /\ same_char
    /\ UNCHANGED <<tokens, wordbuf, num_is_float, make_symlit, strbuf,
                   tmp_symbol, word_pos, last_lexeme>>
    /\ UNCHANGED nonlexvars

\* An unterminated string never leaves MODE_STRING: at end of file next_char
\* keeps delivering '\n'.  strbuf is capped at MaxInput + 1 characters.
LexString ==
    /\ LoopRuns
    /\ parse_mode = "MODE_STRING"
    /\ make_symlit' = FALSE
    /\ IF ch = "\""
       THEN /\ tokens' = Append(tokens, make_string(strbuf, word_pos))
            /\ parse_mode' = "MODE_NONE"
            /\ last_lexeme' = "string"
            /\ UNCHANGED strbuf
       ELSE /\ strbuf' = IF Len(strbuf) <= MaxInput THEN strbuf \o ch ELSE strbuf
            /\ UNCHANGED <<tokens, parse_mode, last_lexeme>>
    /\ next_char
    /\ UNCHANGED <<wordbuf, num_is_float, tmp_symbol, word_pos, lex_pc>>
    /\ UNCHANGED nonlexvars

\* the loop breaks; a final LineEnd is appended; return true
LexFinish ==
    /\ lex_pc = "loop"
    /\ eofbit /\ parse_mode = "MODE_NONE"
    /\ tokens' = IF Len(tokens) > 0 /\ ~is_a(back(tokens), "TOKEN_LINE_END")
                 THEN Append(tokens, make_line_end(pos))
                 ELSE tokens
    /\ lex_pc' = "done"
    /\ UNCHANGED <<consumed, eofbit, ch, parse_mode, wordbuf, num_is_float,
                   make_symlit, strbuf, tmp_symbol, pos, word_pos, last_lexeme>>
    /\ UNCHANGED nonlexvars


(***************************************************************************)
(* The parser (lingo_ast.cpp): parse_ast over the token vector.            *)
(*                                                                         *)
(* The token vector is delivered chunk by chunk (one statement or one      *)
(* declaration per chunk).  Every parse step first receives the chunk that *)
(* follows the one it is about to parse, so each look-ahead of the code    *)
(* sees the token it would see in the complete vector; a step that runs    *)
(* off the end of what has been delivered is the run on the script that    *)
(* ends there.                                                             *)
(***************************************************************************)
\* ---- token_reader ----
eof(toks, i) == i >= Len(toks)
can_peek(toks, i, offset) == i + offset < Len(toks)
peek(toks, i, offset) == toks[i + offset + 1]

\* ---- parse_exception and normal returns of the parsing functions ----
Throw(p, msg) == [ok |-> FALSE, pos |-> p, msg |-> msg]
UnexpectedEOF(toks) == Throw(back(toks).pos, "Unexpected EOF")
Ret(i, e) == [ok |-> TRUE, i |-> i, e |-> e]

token_type_str(type) ==
    CASE type = "TOKEN_KEYWORD" -> "keyword"
      [] type = "TOKEN_SYMBOL" -> "symbol"
      [] type = "TOKEN_FLOAT" -> "float"
      [] type = "TOKEN_INTEGER" -> "integer"
      [] type = "TOKEN_WORD" -> "word"
      [] type = "TOKEN_STRING" -> "string"
      [] type = "TOKEN_SYMBOL_LITERAL" -> "symbol-literal"
      [] type = "TOKEN_LINE_END" -> "newline"
      [] OTHER -> "???"

token_to_str(tok) ==
    token_type_str(tok.type) \o
        (CASE tok.type = "TOKEN_WORD" -> " '" \o tok.str \o "'"
           [] tok.type = "TOKEN_KEYWORD" -> " '" \o tok.str \o "' "
           [] tok.type = "TOKEN_SYMBOL" -> " '" \o tok.str \o "'"
           [] OTHER -> "")

type_errorstr(desired, got) ==
    "expected " \o token_type_str(desired) \o ", got " \o token_type_str(got)
        \o " instead"

\* the messages of the tok_expect overloads
expect_word_id_msg(word_id, tok) ==
    "expected '" \o word_id \o "', got " \o token_to_str(tok) \o " instead"
expect_keyword_msg(kw, tok) ==
    "expected '" \o keyword_to_str(kw) \o "', got " \o token_to_str(tok) \o " instead"
expect_symbol_msg(sym, tok) ==
    "expected symbol '" \o symbol_to_str(sym) \o "', got " \o token_to_str(tok)
        \o " instead"

\* ---- scopes ----
\* has_var returns [has, scope]; scope is "UNSET" where the code leaves the
\* caller's variable untouched
script_scope_has_var(s, name) ==
    IF name \in s.properties THEN [has |-> TRUE, scope |-> "SCOPE_PROPERTY"]
    ELSE IF name \in s.globals THEN [has |-> TRUE, scope |-> "SCOPE_GLOBAL"]
    ELSE [has |-> FALSE, scope |-> "SCOPE_LOCAL"]

handler_scope_has_var_locals_first(hs, name) ==
    LET parent == script_scope_has_var(hs.parent_scope, name)
    IN  IF name \in hs.locals THEN [has |-> TRUE, scope |-> "SCOPE_LOCAL"]
        ELSE IF name \in hs.params THEN [has |-> TRUE, scope |-> "SCOPE_LOCAL"]
        ELSE IF name \in hs.globals THEN [has |-> TRUE, scope |-> "SCOPE_GLOBAL"]
        ELSE IF parent.has THEN parent
        ELSE [has |-> FALSE, scope |-> "UNSET"]

handler_scope_has_var(hs, name) ==
    LET parent == script_scope_has_var(hs.parent_scope, name)
    IN  IF parent.has /\ parent.scope = "SCOPE_PROPERTY" THEN parent
        ELSE IF name \in hs.locals THEN [has |-> TRUE, scope |-> "SCOPE_LOCAL"]
        ELSE IF name \in hs.params THEN [has |-> TRUE, scope |-> "SCOPE_LOCAL"]
        ELSE IF name \in hs.globals THEN [has |-> TRUE, scope |-> "SCOPE_GLOBAL"]
        ELSE IF parent.has THEN parent
        ELSE [has |-> FALSE, scope |-> "UNSET"]

\* ---- AST expression nodes ----
nullptr == [type |-> "nullptr"]

ast_expr_literal(p, literal_type, str, intv, floatv) ==
    [type |-> "EXPR_LITERAL", pos |-> p, literal_type |-> literal_type,
     str |-> str, intv |-> intv, floatv |-> floatv]
literal_make_int(p, v) == ast_expr_literal(p, "EXPR_LITERAL_INTEGER", "", v, NoNumber)
literal_make_float(p, v) == ast_expr_literal(p, "EXPR_LITERAL_FLOAT", "", 0, v)
literal_make_string(p, v) == ast_expr_literal(p, "EXPR_LITERAL_STRING", v, 0, NoNumber)
literal_make_void(p) == ast_expr_literal(p, "EXPR_LITERAL_VOID", "", 0, NoNumber)

ast_expr_identifier(p, identifier, sc) ==
    [type |-> "EXPR_IDENTIFIER", pos |-> p, identifier |-> identifier, scope |-> sc]
ast_expr_binop(p, left, right, op) ==
    [type |-> "EXPR_BINOP", pos |-> p, left |-> left, right |-> right, op |-> op]
ast_expr_unop(p, expr, op) ==
    [type |-> "EXPR_UNOP", pos |-> p, expr |-> expr, op |-> op]
ast_expr_the(p, identifier) ==
    [type |-> "EXPR_THE", pos |-> p, identifier |-> identifier]
ast_expr_dot(p, expr, idx) ==
    [type |-> "EXPR_DOT", pos |-> p, expr |-> expr, index |-> idx]
ast_expr_index(p, expr, index_from) ==
    [type |-> "EXPR_INDEX", pos |-> p, expr |-> expr, index_from |-> index_from,
     index_to |-> nullptr]
ast_expr_call(p, method, arguments) ==
    [type |-> "EXPR_CALL", pos |-> p, method |-> method, arguments |-> arguments]

\* pi as a decimal of nine significant digits (the model's decimals carry
\* 31-bit mantissas)
M_PI == <<314159265, 8>>

BuiltinConstants ==
    {"true", "false", "pi", "quote", "empty", "enter", "return", "space",
     "tab", "backspace", "void"}

builtin_constant(tok) ==
    CASE tok.str = "true" -> literal_make_int(tok.pos, 1)
      [] tok.str = "false" -> literal_make_int(tok.pos, 0)
      [] tok.str = "pi" -> literal_make_float(tok.pos, M_PI)
      [] tok.str = "quote" -> literal_make_string(tok.pos, "\"")
      [] tok.str = "empty" -> literal_make_string(tok.pos, "")
      [] tok.str = "enter" -> literal_make_string(tok.pos, "\\x03")
      [] tok.str = "return" -> literal_make_string(tok.pos, "\r")
      [] tok.str = "space" -> literal_make_string(tok.pos, " ")
      [] tok.str = "tab" -> literal_make_string(tok.pos, "\t")
      [] tok.str = "backspace" -> literal_make_string(tok.pos, "\\b")
      [] tok.str = "void" -> literal_make_void(tok.pos)

the_identifier(str) ==
    CASE str = "moviepath" -> "EXPR_THE_MOVIE_PATH"
      [] str = "frame" -> "EXPR_THE_FRAME"
      [] str = "dirseparator" -> "EXPR_THE_DIR_SEPARATOR"
      [] str = "randomseed" -> "EXPR_THE_RANDOM_SEED"
      [] OTHER -> ""

\* a plausible slip: the tests of the levels (3) and (4) exchanged
is_binop_at_swapped(Lv, tok, assignment) ==
    CASE Lv = 0 -> \/ (is_symbol(tok, "SYMBOL_EQUAL") /\ ~assignment)
                   \/ is_symbol(tok, "SYMBOL_NEQUAL") \/ is_symbol(tok, "SYMBOL_GT")
                   \/ is_symbol(tok, "SYMBOL_LT") \/ is_symbol(tok, "SYMBOL_GE")
                   \/ is_symbol(tok, "SYMBOL_LE")
      [] Lv = 1 -> \/ is_symbol(tok, "SYMBOL_AMPERSAND")
                   \/ is_symbol(tok, "SYMBOL_DOUBLE_AMPERSAND")
      [] Lv = 3 -> is_symbol(tok, "SYMBOL_PLUS") \/ is_symbol(tok, "SYMBOL_MINUS")
      [] Lv = 2 -> \/ is_symbol(tok, "SYMBOL_STAR") \/ is_symbol(tok, "SYMBOL_SLASH")
                   \/ is_keyword(tok, "KEYWORD_MOD") \/ is_keyword(tok, "KEYWORD_AND")
                   \/ is_keyword(tok, "KEYWORD_OR")

\* the loop condition of precedence level Lv (0..3)
is_binop_at(Lv, tok, assignment) ==
    CASE Lv = 0 -> \/ (is_symbol(tok, "SYMBOL_EQUAL") /\ ~assignment)
                   \/ is_symbol(tok, "SYMBOL_NEQUAL") \/ is_symbol(tok, "SYMBOL_GT")
                   \/ is_symbol(tok, "SYMBOL_LT") \/ is_symbol(tok, "SYMBOL_GE")
                   \/ is_symbol(tok, "SYMBOL_LE")
      [] Lv = 1 -> \/ is_symbol(tok, "SYMBOL_AMPERSAND")
                   \/ is_symbol(tok, "SYMBOL_DOUBLE_AMPERSAND")
      [] Lv = 2 -> is_symbol(tok, "SYMBOL_PLUS") \/ is_symbol(tok, "SYMBOL_MINUS")
      [] Lv = 3 -> \/ is_symbol(tok, "SYMBOL_STAR") \/ is_symbol(tok, "SYMBOL_SLASH")
                   \/ is_keyword(tok, "KEYWORD_MOD") \/ is_keyword(tok, "KEYWORD_AND")
                   \/ is_keyword(tok, "KEYWORD_OR")

\* the switch on op.symbol / op.keyword
binop_of(tok) ==
    CASE is_symbol(tok, "SYMBOL_EQUAL") -> "EXPR_BINOP_EQ"
      [] is_symbol(tok, "SYMBOL_NEQUAL") -> "EXPR_BINOP_NEQ"
      [] is_symbol(tok, "SYMBOL_GT") -> "EXPR_BINOP_GT"
      [] is_symbol(tok, "SYMBOL_LT") -> "EXPR_BINOP_LT"
      [] is_symbol(tok, "SYMBOL_GE") -> "EXPR_BINOP_GE"
      [] is_symbol(tok, "SYMBOL_LE") -> "EXPR_BINOP_LE"
      [] is_symbol(tok, "SYMBOL_AMPERSAND") -> "EXPR_BINOP_CONCAT"
      [] is_symbol(tok, "SYMBOL_DOUBLE_AMPERSAND") -> "EXPR_BINOP_CONCAT_WITH_SPACE"
      [] is_symbol(tok, "SYMBOL_PLUS") -> "EXPR_BINOP_ADD"
      [] is_symbol(tok, "SYMBOL_MINUS") -> "EXPR_BINOP_SUB"
      [] is_symbol(tok, "SYMBOL_STAR") -> "EXPR_BINOP_MUL"
      [] is_symbol(tok, "SYMBOL_SLASH") -> "EXPR_BINOP_DIV"
      [] is_keyword(tok, "KEYWORD_MOD") -> "EXPR_BINOP_MOD"
      [] is_keyword(tok, "KEYWORD_AND") -> "EXPR_BINOP_AND"
      [] is_keyword(tok, "KEYWORD_OR") -> "EXPR_BINOP_OR"

undeclared_use_never(has, func_call) == FALSE

\* Lv 6: the condition of "use of undeclared variable"
undeclared_use(has, func_call) == ~has /\ ~func_call

\* Lv 6: ret->scope
identifier_scope(func_call, var_scope) ==
    IF func_call THEN "SCOPE_LOCAL" ELSE var_scope

RECURSIVE parse_expression(_, _, _, _, _)
RECURSIVE binop_loop(_, _, _, _, _, _)
RECURSIVE call_arguments(_, _, _, _, _)
RECURSIVE postfix_loop(_, _, _, _)

\* the while loop of levels 0..3, entered with `left` parsed and the reader
\* at i
binop_loop(Lv, toks, hs, assignment, left, i) ==
    IF ~can_peek(toks, i, 0) THEN UnexpectedEOF(toks)
    ELSE LET tok == peek(toks, i, 0)
         IN  IF ~is_binop_at(Lv, tok, assignment) THEN Ret(i, left)
             ELSE LET right == parse_expression(Lv + 1, toks, i + 1, hs, FALSE)
                  IN  IF ~right.ok THEN right
                      ELSE binop_loop(Lv, toks, hs, assignment,
                               ast_expr_binop(tok.pos, left, right.e, binop_of(tok)),
                               right.i)

\* Lv 5: the argument loop of a call, entered after the '(' was popped;
\* returns [ok, i, args] with i after the ')'
call_arguments(toks, hs, i, args, argn) ==
    IF ~can_peek(toks, i, 0) THEN UnexpectedEOF(toks)
    ELSE IF is_symbol(peek(toks, i, 0), "SYMBOL_RPAREN")
    THEN [ok |-> TRUE, i |-> i + 1, args |-> args]
    ELSE LET r == parse_expression(0, toks, i, hs, FALSE)
         IN  IF ~r.ok THEN r
             ELSE IF ~can_peek(toks, r.i, 0) THEN UnexpectedEOF(toks)
             ELSE LET tok == peek(toks, r.i, 0)
                  IN  IF argn > 0
                      THEN IF ~is_symbol(tok, "SYMBOL_RPAREN")
                           THEN IF ~is_symbol(tok, "SYMBOL_COMMA")
                                THEN Throw(tok.pos, expect_symbol_msg("SYMBOL_COMMA", tok))
                                ELSE call_arguments(toks, hs, r.i + 1,
                                                    Append(args, r.e), argn + 1)
                           ELSE call_arguments(toks, hs, r.i,
                                               Append(args, r.e), argn + 1)
                      ELSE IF is_symbol(tok, "SYMBOL_COMMA")
                           THEN call_arguments(toks, hs, r.i + 1,
                                               Append(args, r.e), argn + 1)
                           ELSE call_arguments(toks, hs, r.i,
                                               Append(args, r.e), argn + 1)

\* Lv 5: the while (true) loop over call, dot and index suffixes
postfix_loop(toks, hs, expr, i) ==
    IF ~can_peek(toks, i, 0) THEN UnexpectedEOF(toks)
    ELSE LET op == peek(toks, i, 0)
         IN  IF is_symbol(op, "SYMBOL_LPAREN")
             THEN LET a == call_arguments(toks, hs, i + 1, <<>>, 0)
                  IN  IF ~a.ok THEN a
                      ELSE postfix_loop(toks, hs,
                               ast_expr_call(op.pos, expr, a.args), a.i)
             ELSE IF is_symbol(op, "SYMBOL_PERIOD")
             THEN IF ~can_peek(toks, i + 1, 0) THEN UnexpectedEOF(toks)
                  ELSE LET id == peek(toks, i + 1, 0)
                       IN  IF id.type # "TOKEN_WORD"
                           THEN Throw(id.pos, type_errorstr("TOKEN_WORD", id.type))
                           ELSE postfix_loop(toks, hs,
                                    ast_expr_dot(op.pos, expr, id.str), i + 2)
             ELSE IF is_symbol(op, "SYMBOL_LBRACKET")
             THEN LET inner == parse_expression(0, toks, i + 1, hs, FALSE)
                  IN  IF ~inner.ok THEN inner
                      ELSE IF ~can_peek(toks, inner.i, 0) THEN UnexpectedEOF(toks)
                      ELSE LET term == peek(toks, inner.i, 0)
                           IN  IF ~is_symbol(term, "SYMBOL_RBRACKET")
                               THEN Throw(term.pos,
                                        "expected symbol ']', got " \o token_to_str(term))
                               ELSE postfix_loop(toks, hs,
                                        ast_expr_index(op.pos, expr, inner.e),
                                        inner.i + 1)
             ELSE Ret(i, expr)

\* parse_expression<Lv>(reader, ctx, assignment) with the reader at i
parse_expression(Lv, toks, i, hs, assignment) ==
    CASE Lv \in 0..3 ->
        LET left == parse_expression(Lv + 1, toks, i, hs,
                                     IF Lv = 0 THEN assignment ELSE FALSE)
        IN  IF ~left.ok THEN left
            ELSE binop_loop(Lv, toks, hs, assignment, left.e, left.i)
      [] Lv = 4 ->
        IF ~can_peek(toks, i, 0) THEN UnexpectedEOF(toks)
        ELSE LET tok == peek(toks, i, 0)
             IN  IF is_symbol(tok, "SYMBOL_MINUS")
                 THEN \* reader.pop(); lit = reader.peek(1)
                      IF ~can_peek(toks, i + 1, 1) THEN UnexpectedEOF(toks)
                      ELSE LET lit == peek(toks, i + 1, 1)
                           IN  IF is_a(lit, "TOKEN_FLOAT")
                               THEN Ret(i + 1, literal_make_float(tok.pos, lit.number))
                               ELSE IF is_a(lit, "TOKEN_INTEGER")
                               THEN Ret(i + 1, literal_make_int(tok.pos, lit.integer))
                               ELSE LET r == parse_expression(5, toks, i + 1, hs, FALSE)
                                    IN  IF ~r.ok THEN r
                                        ELSE Ret(r.i, ast_expr_unop(tok.pos, r.e,
                                                                    "EXPR_UNOP_NEG"))
                 ELSE IF is_keyword(tok, "KEYWORD_NOT")
                 THEN LET r == parse_expression(5, toks, i + 1, hs, FALSE)
                      IN  IF ~r.ok THEN r
                          ELSE Ret(r.i, ast_expr_unop(tok.pos, r.e, "EXPR_UNOP_NOT"))
                 ELSE parse_expression(5, toks, i, hs, FALSE)
      [] Lv = 5 ->
        LET r == parse_expression(6, toks, i, hs, FALSE)
        IN  IF ~r.ok THEN r ELSE postfix_loop(toks, hs, r.e, r.i)
      [] Lv = 6 ->
        IF ~can_peek(toks, i, 0) THEN UnexpectedEOF(toks)
        ELSE LET tok == peek(toks, i, 0)
             IN  IF is_symbol(tok, "SYMBOL_LPAREN")
                 THEN LET r == parse_expression(0, toks, i + 1, hs, FALSE)
                      IN  IF ~r.ok THEN r
                          ELSE IF ~can_peek(toks, r.i, 0) THEN UnexpectedEOF(toks)
                          ELSE LET term == peek(toks, r.i, 0)
                               IN  IF ~is_symbol(term, "SYMBOL_RPAREN")
                                   THEN Throw(term.pos,
                                            "expected symbol ')', got "
                                                \o token_to_str(term))
                                   ELSE Ret(r.i + 1, r.e)
                 ELSE IF is_word(tok, "the")
                 THEN IF ~can_peek(toks, i + 1, 0) THEN UnexpectedEOF(toks)
                      ELSE LET id == peek(toks, i + 1, 0)
                           IN  IF id.type # "TOKEN_WORD"
                               THEN Throw(id.pos, type_errorstr("TOKEN_WORD", id.type))
                               ELSE IF the_identifier(id.str) # ""
                               THEN Ret(i + 2, ast_expr_the(tok.pos,
                                                            the_identifier(id.str)))
                               ELSE Throw(id.pos,
                                        "invalid 'the' identifier " \o id.str)
                 ELSE IF is_a(tok, "TOKEN_WORD")
                 THEN IF tok.str \in BuiltinConstants
                      THEN Ret(i + 1, builtin_constant(tok))
                      ELSE LET func_call == /\ ~eof(toks, i + 1)
                                            /\ is_symbol(peek(toks, i + 1, 0),
                                                         "SYMBOL_LPAREN")
                               hv == handler_scope_has_var(hs, tok.str)
                           IN  IF undeclared_use(hv.has, func_call)
                               THEN Throw(tok.pos,
                                        "use of undeclared variable '"
                                            \o tok.str \o "'")
                               ELSE Ret(i + 1,
                                        ast_expr_identifier(tok.pos, tok.str,
                                            identifier_scope(func_call, hv.scope)))
                 ELSE IF is_a(tok, "TOKEN_FLOAT")
                 THEN Ret(i + 1, literal_make_float(tok.pos, tok.number))
                 ELSE IF is_a(tok, "TOKEN_INTEGER")
                 THEN Ret(i + 1, literal_make_int(tok.pos, tok.integer))
                 ELSE IF is_a(tok, "TOKEN_STRING")
                 THEN Ret(i + 1, literal_make_string(tok.pos, tok.str))
                 ELSE Throw(tok.pos, "unexpected " \o token_to_str(tok))

\* ---- AST statement nodes ----
ast_statement_assign(p, lvalue, rvalue) ==
    [type |-> "STATEMENT_ASSIGN", pos |-> p, lvalue |-> lvalue, rvalue |-> rvalue]
ast_statement_return(p, expr) ==
    [type |-> "STATEMENT_RETURN", pos |-> p, expr |-> expr]
ast_statement_put(p, expr) ==
    [type |-> "STATEMENT_PUT", pos |-> p, expr |-> expr]
ast_statement_put_on(p, expr, target, before) ==
    [type |-> "STATEMENT_PUT_ON", pos |-> p, expr |-> expr, target |-> target,
     before |-> before]
ast_statement_expr(p, expr) ==
    [type |-> "STATEMENT_EXPR", pos |-> p, expr |-> expr]
ast_if_branch(condition, body) == [condition |-> condition, body |-> body]
ast_statement_if(p) ==
    [type |-> "STATEMENT_IF", pos |-> p, branches |-> <<>>, has_else |-> FALSE,
     else_branch |-> <<>>]
ast_statement_repeat_while(p, condition, body) ==
    [type |-> "STATEMENT_REPEAT_WHILE", pos |-> p, condition |-> condition,
     body |-> body]
ast_statement_repeat_to(p, iterator, init, to, down, body) ==
    [type |-> "STATEMENT_REPEAT_TO", pos |-> p, iterator |-> iterator,
     init |-> init, to |-> to, down |-> down, body |-> body]
ast_statement_repeat_in(p, iterator, iterable, body) ==
    [type |-> "STATEMENT_REPEAT_IN", pos |-> p, iterator |-> iterator,
     iterable |-> iterable, body |-> body]

\* a statement-level return: the reader position, the statement (or the
\* statement list) and the handler scope with the locals added so far
RetS(i, stm, hs) == [ok |-> TRUE, i |-> i, stm |-> stm, hs |-> hs]

\* tok_expect(reader.pop(), TOKEN_LINE_END); return stm;
end_statement(toks, i, stm, hs) ==
    IF ~can_peek(toks, i, 0) THEN UnexpectedEOF(toks)
    ELSE LET tok == peek(toks, i, 0)
         IN  IF tok.type # "TOKEN_LINE_END"
             THEN Throw(tok.pos, type_errorstr("TOKEN_LINE_END", tok.type))
             ELSE RetS(i + 1, stm, hs)

\* called with a token at i
check_handler_invocation_statement(toks, i) ==
    IF ~is_a(peek(toks, i, 0), "TOKEN_WORD") THEN [ok |-> TRUE, v |-> FALSE]
    ELSE IF ~can_peek(toks, i, 1) THEN UnexpectedEOF(toks)
    ELSE LET next_tok == peek(toks, i, 1)
         IN  [ok |-> TRUE,
              v |-> \/ is_a(next_tok, "TOKEN_LINE_END")
                    \/ is_a(next_tok, "TOKEN_WORD")
                    \/ is_a(next_tok, "TOKEN_STRING")
                    \/ is_a(next_tok, "TOKEN_FLOAT")
                    \/ is_a(next_tok, "TOKEN_INTEGER")
                    \/ is_symbol(next_tok, "SYMBOL_POUND")]

\* while (!reader.pop().is_a(TOKEN_LINE_END));
RECURSIVE discard_line(_, _)
discard_line(toks, i) ==
    IF ~can_peek(toks, i, 0) THEN UnexpectedEOF(toks)
    ELSE IF is_a(peek(toks, i, 0), "TOKEN_LINE_END") THEN [ok |-> TRUE, i |-> i + 1]
    ELSE discard_line(toks, i + 1)

RECURSIVE invocation_arguments(_, _, _, _, _)
RECURSIVE parse_statement(_, _, _)
RECURSIVE if_block(_, _, _, _)
RECURSIVE if_loop(_, _, _, _, _)
RECURSIVE read_repeat_body(_, _, _, _)

\* the argument loop of a handler invocation statement after the argument
\* r was parsed
invocation_arguments_next(toks, hs, args, argn, r) ==
    IF ~r.ok THEN r
    ELSE IF ~can_peek(toks, r.i, 0) THEN UnexpectedEOF(toks)
    ELSE LET tok == peek(toks, r.i, 0)
         IN  IF argn > 0
             THEN IF ~is_a(tok, "TOKEN_LINE_END")
                  THEN IF ~is_symbol(tok, "SYMBOL_COMMA")
                       THEN Throw(tok.pos, expect_symbol_msg("SYMBOL_COMMA", tok))
                       ELSE invocation_arguments(toks, hs, r.i + 1,
                                                 Append(args, r.e), argn + 1)
                  ELSE invocation_arguments(toks, hs, r.i,
                                            Append(args, r.e), argn + 1)
             ELSE IF is_symbol(tok, "SYMBOL_COMMA")
                  THEN invocation_arguments(toks, hs, r.i + 1,
                                            Append(args, r.e), argn + 1)
                  ELSE invocation_arguments(toks, hs, r.i,
                                            Append(args, r.e), argn + 1)

\* the argument loop of a handler invocation statement; returns [ok, i, args]
\* with i after the newline
invocation_arguments(toks, hs, i, args, argn) ==
    IF ~can_peek(toks, i, 0) THEN UnexpectedEOF(toks)
    ELSE IF is_a(peek(toks, i, 0), "TOKEN_LINE_END")
    THEN [ok |-> TRUE, i |-> i + 1, args |-> args]
    ELSE invocation_arguments_next(toks, hs, args, argn,
                                   parse_expression(0, toks, i, hs, FALSE))

\* if statement, block form: the statement s was read into the block
if_block_next(toks, body, s) ==
    IF ~s.ok THEN s
    ELSE if_block(toks, s.i, s.hs, Append(body, s.stm))

\* if statement, block form: the statements up to `end` or `else`
if_block(toks, i, hs, body) ==
    IF ~can_peek(toks, i, 0) THEN UnexpectedEOF(toks)
    ELSE LET tok == peek(toks, i, 0)
         IN  IF is_word(tok, "end") \/ is_keyword(tok, "KEYWORD_ELSE")
             THEN RetS(i, body, hs)
             ELSE if_block_next(toks, body, parse_statement(toks, i, hs))

\* the condition c of an if / else if branch was parsed: expect `then`
if_condition(toks, c) ==
    IF ~c.ok THEN c
    ELSE IF ~can_peek(toks, c.i, 0) THEN UnexpectedEOF(toks)
    ELSE IF ~is_keyword(peek(toks, c.i, 0), "KEYWORD_THEN")
    THEN Throw(peek(toks, c.i, 0).pos,
             "expected keyword 'then', got " \o token_to_str(peek(toks, c.i, 0)))
    ELSE Ret(c.i + 1, c.e)

\* block form: the block b of the branch was read
if_loop_block(toks, if_stm, is_else, cond, b) ==
    IF ~b.ok THEN b
    ELSE
    LET stm == IF is_else
               THEN [if_stm EXCEPT !.has_else = TRUE, !.else_branch = b.stm]
               ELSE [if_stm EXCEPT !.branches =
                        Append(@, ast_if_branch(cond.e, b.stm))]
        tok == peek(toks, b.i, 0)
    IN  IF is_else /\ ~is_word(tok, "end")
        THEN Throw(tok.pos, expect_word_id_msg("end", tok))
        ELSE IF is_word(tok, "end")
        THEN IF ~can_peek(toks, b.i + 1, 0) THEN UnexpectedEOF(toks)
             ELSE IF ~is_word(peek(toks, b.i + 1, 0), "if")
             THEN Throw(tok.pos, "expected end if")
             ELSE end_statement(toks, b.i + 2, stm, b.hs)
        ELSE \* tok_expect(reader.pop(), KEYWORD_ELSE)
             if_loop(toks, b.i + 1, b.hs, stm, TRUE)

\* single-line form: the statement s of the branch was read
if_loop_single(toks, if_stm, is_else, cond, s) ==
    IF ~s.ok THEN s
    ELSE
    LET stm == IF is_else
               THEN [if_stm EXCEPT !.has_else = TRUE,
                                   !.else_branch = Append(@, s.stm)]
               ELSE [if_stm EXCEPT !.branches =
                        Append(@, ast_if_branch(cond.e, <<s.stm>>))]
    IN  IF ~can_peek(toks, s.i, 0) THEN UnexpectedEOF(toks)
        ELSE IF ~is_keyword(peek(toks, s.i, 0), "KEYWORD_ELSE")
        THEN RetS(s.i, stm, s.hs)
        ELSE if_loop(toks, s.i + 1, s.hs, stm, TRUE)

\* the branch body after its condition cond (nullptr for else)
if_loop_body(toks, hs, if_stm, is_else, cond) ==
    IF ~cond.ok THEN cond
    ELSE IF ~can_peek(toks, cond.i, 0) THEN UnexpectedEOF(toks)
    ELSE IF is_a(peek(toks, cond.i, 0), "TOKEN_LINE_END")
    THEN if_loop_block(toks, if_stm, is_else, cond,
                       if_block(toks, cond.i + 1, hs, <<>>))
    ELSE if_loop_single(toks, if_stm, is_else, cond,
                        parse_statement(toks, cond.i, hs))

\* one iteration of the while (true) loop of the if statement
if_loop(toks, i, hs, if_stm, else_allowed) ==
    IF else_allowed /\ ~can_peek(toks, i, 0) THEN UnexpectedEOF(toks)
    ELSE
    LET is_else == else_allowed /\ ~is_word(peek(toks, i, 0), "if")
        i1      == IF else_allowed /\ ~is_else THEN i + 1 ELSE i
    IN  if_loop_body(toks, hs, if_stm, is_else,
            IF is_else THEN Ret(i1, nullptr)
            ELSE if_condition(toks, parse_expression(0, toks, i1, hs, FALSE)))

\* the lambda read_repeat_body: the statement s was read into the body
read_repeat_body_next(toks, stms, s) ==
    IF ~s.ok THEN s
    ELSE read_repeat_body(toks, s.i, s.hs, Append(stms, s.stm))

\* the lambda read_repeat_body
read_repeat_body(toks, i, hs, stms) ==
    IF ~can_peek(toks, i, 0) THEN UnexpectedEOF(toks)
    ELSE LET tok == peek(toks, i, 0)
         IN  IF is_word(tok, "end")
             THEN IF ~can_peek(toks, i + 1, 0) THEN UnexpectedEOF(toks)
                  ELSE IF ~is_word(peek(toks, i + 1, 0), "repeat")
                  THEN Throw(tok.pos, "expected end repeat")
                  ELSE end_statement(toks, i + 2, stms, hs)
             ELSE read_repeat_body_next(toks, stms, parse_statement(toks, i, hs))

\* the rest of a repeat statement after its header expressions: discard the
\* line and read the body; returns the body in stm
repeat_tail(toks, i, hs) ==
    LET d == discard_line(toks, i)
    IN  IF ~d.ok THEN d ELSE read_repeat_body(toks, d.i, hs, <<>>)

\* repeat with <id> = <init> [down] to <stop>: the body b was read
repeat_to_end(line_pos, id_expr, init, stop, down, b) ==
    IF ~b.ok THEN b
    ELSE RetS(b.i,
             ast_statement_repeat_to(line_pos, id_expr, init.e, stop.e, down, b.stm),
             b.hs)

\* repeat with <id> = <init> [down] to <stop>: stop was parsed
repeat_to_stop(toks, hs2, line_pos, id_expr, init, down, stop) ==
    IF ~stop.ok THEN stop
    ELSE repeat_to_end(line_pos, id_expr, init, stop, down,
                       repeat_tail(toks, stop.i, hs2))

\* repeat with <id> = <init> [down] to <stop>: init was parsed
repeat_to_init(toks, hs2, line_pos, id_expr, init) ==
    IF ~init.ok THEN init
    ELSE IF ~can_peek(toks, init.i, 0) THEN UnexpectedEOF(toks)
    ELSE
    LET down == is_word(peek(toks, init.i, 0), "down")
        j    == IF down THEN init.i + 1 ELSE init.i
    IN  IF ~can_peek(toks, j, 0) THEN UnexpectedEOF(toks)
        ELSE IF ~is_word(peek(toks, j, 0), "to")
        THEN Throw(peek(toks, j, 0).pos, expect_word_id_msg("to", peek(toks, j, 0)))
        ELSE repeat_to_stop(toks, hs2, line_pos, id_expr, init, down,
                            parse_expression(0, toks, j + 1, hs2, FALSE))

\* repeat with <id> in <iterable>: the body b was read
repeat_in_end(line_pos, id_expr, iterable, b) ==
    IF ~b.ok THEN b
    ELSE RetS(b.i, ast_statement_repeat_in(line_pos, id_expr, iterable.e, b.stm),
              b.hs)

\* repeat with <id> in <iterable>: iterable was parsed
repeat_in_iterable(toks, hs2, line_pos, id_expr, iterable) ==
    IF ~iterable.ok THEN iterable
    ELSE repeat_in_end(line_pos, id_expr, iterable,
                       repeat_tail(toks, iterable.i, hs2))

\* repeat with <id> ..., entered with the reader at the identifier
repeat_with(toks, i, hs, line_pos) ==
    IF ~can_peek(toks, i, 0) THEN UnexpectedEOF(toks)
    ELSE
    LET id_tok == peek(toks, i, 0)
    IN  IF id_tok.type # "TOKEN_WORD"
        THEN Throw(id_tok.pos, type_errorstr("TOKEN_WORD", id_tok.type))
        ELSE
        LET hv       == handler_scope_has_var(hs, id_tok.str)
            id_scope == IF hv.has THEN hv.scope ELSE "SCOPE_LOCAL"
            hs2      == IF hv.has THEN hs
                        ELSE [hs EXCEPT !.locals = @ \cup {id_tok.str},
                                        !.introduced = Append(@, id_tok.str)]
            id_expr  == ast_expr_identifier(id_tok.pos, id_tok.str, id_scope)
        IN  IF ~can_peek(toks, i + 1, 0) THEN UnexpectedEOF(toks)
            ELSE
            LET tok == peek(toks, i + 1, 0)
            IN  IF is_symbol(tok, "SYMBOL_EQUAL")
                THEN repeat_to_init(toks, hs2, line_pos, id_expr,
                                    parse_expression(0, toks, i + 2, hs2, FALSE))
                ELSE IF is_word(tok, "in")
                THEN repeat_in_iterable(toks, hs2, line_pos, id_expr,
                                        parse_expression(0, toks, i + 2, hs2, FALSE))
                ELSE Throw(tok.pos, "expected '=' or 'in', got " \o token_to_str(tok))

\* repeat while <condition>: the body b was read
repeat_while_end(line_pos, c, b) ==
    IF ~b.ok THEN b
    ELSE RetS(b.i, ast_statement_repeat_while(line_pos, c.e, b.stm), b.hs)

\* repeat while <condition>: the condition c was parsed
repeat_while(toks, hs, line_pos, c) ==
    IF ~c.ok THEN c
    ELSE repeat_while_end(line_pos, c, repeat_tail(toks, c.i, hs))

\* <word> = <value_expr>: the value was parsed; the variable becomes a local
\* of the handler unless it is already visible
statement_assign_word(toks, hs, tok, value_expr) ==
    LET hv        == handler_scope_has_var(hs, tok.str)
        var_scope == IF hv.has THEN hv.scope ELSE "SCOPE_LOCAL"
        hs2       == IF hv.has THEN hs
                     ELSE [hs EXCEPT !.locals = @ \cup {tok.str},
                                     !.introduced = Append(@, tok.str)]
    IN  IF ~value_expr.ok THEN value_expr
        ELSE end_statement(toks, value_expr.i,
                 ast_statement_assign(tok.pos,
                     ast_expr_identifier(tok.pos, tok.str, var_scope),
                     value_expr.e),
                 hs2)

\* return [<r>]
statement_return(toks, hs, line_pos, r) ==
    IF ~r.ok THEN r
    ELSE end_statement(toks, r.i, ast_statement_return(line_pos, r.e), hs)

\* put <e> after|before <s>
statement_put_on(toks, hs, line_pos, e, before, s) ==
    IF ~s.ok THEN s
    ELSE end_statement(toks, s.i, ast_statement_put_on(line_pos, e.e, s.e, before), hs)

\* put <e> ...
statement_put(toks, hs, line_pos, e) ==
    IF ~e.ok THEN e
    ELSE IF ~can_peek(toks, e.i, 0) THEN UnexpectedEOF(toks)
    ELSE LET t == peek(toks, e.i, 0)
         IN  IF is_word(t, "after") \/ is_word(t, "before")
             THEN statement_put_on(toks, hs, line_pos, e, is_word(t, "before"),
                                   parse_expression(0, toks, e.i + 1, hs, FALSE))
             ELSE end_statement(toks, e.i, ast_statement_put(line_pos, e.e), hs)

\* handler invocation statement: the arguments a were read
statement_invocation(hs, tok, a) ==
    IF ~a.ok THEN a
    ELSE RetS(a.i,
             ast_statement_expr(tok.pos,
                 ast_expr_call(tok.pos,
                     ast_expr_identifier(tok.pos, tok.str, "SCOPE_LOCAL"),
                     a.args)),
             hs)

\* <expr> = <value_expr>
statement_assign_expr(toks, hs, line_pos, expr, value_expr) ==
    IF ~value_expr.ok THEN value_expr
    ELSE end_statement(toks, value_expr.i,
             ast_statement_assign(line_pos, expr.e, value_expr.e), hs)

\* expression assignment or evaluation: the expression was parsed
statement_expr(toks, hs, line_pos, expr) ==
    IF ~expr.ok THEN expr
    ELSE IF ~can_peek(toks, expr.i, 0) THEN UnexpectedEOF(toks)
    ELSE IF is_symbol(peek(toks, expr.i, 0), "SYMBOL_EQUAL")
    THEN statement_assign_expr(toks, hs, line_pos, expr,
                               parse_expression(0, toks, expr.i + 1, hs, FALSE))
    ELSE end_statement(toks, expr.i, ast_statement_expr(line_pos, expr.e), hs)

\* parse_statement(reader, scope) with the reader at i
parse_statement(toks, i, hs) ==
    IF ~can_peek(toks, i, 0) THEN UnexpectedEOF(toks)
    ELSE
    LET tok      == peek(toks, i, 0)
        line_pos == tok.pos
    IN
    IF is_a(tok, "TOKEN_WORD") /\ ~can_peek(toks, i, 1) THEN UnexpectedEOF(toks)
    ELSE IF is_a(tok, "TOKEN_WORD") /\ is_symbol(peek(toks, i, 1), "SYMBOL_EQUAL")
    THEN statement_assign_word(toks, hs, tok,
                               parse_expression(0, toks, i + 2, hs, FALSE))
    ELSE IF is_word(tok, "return")
    THEN IF ~can_peek(toks, i + 1, 0) THEN UnexpectedEOF(toks)
         ELSE statement_return(toks, hs, line_pos,
                  IF is_a(peek(toks, i + 1, 0), "TOKEN_LINE_END")
                  THEN Ret(i + 1, nullptr)
                  ELSE parse_expression(0, toks, i + 1, hs, FALSE))
    ELSE IF is_word(tok, "put")
    THEN statement_put(toks, hs, line_pos, parse_expression(0, toks, i + 1, hs, FALSE))
    ELSE IF is_word(tok, "if")
    THEN if_loop(toks, i + 1, hs, ast_statement_if(line_pos), FALSE)
    ELSE IF is_word(tok, "repeat")
    THEN IF ~can_peek(toks, i + 1, 0) THEN UnexpectedEOF(toks)
         ELSE LET t == peek(toks, i + 1, 0)
              IN  IF is_word(t, "with") THEN repeat_with(toks, i + 2, hs, line_pos)
                  ELSE IF is_word(t, "while")
                  THEN repeat_while(toks, hs, line_pos,
                                    parse_expression(0, toks, i + 2, hs, FALSE))
                  ELSE Throw(t.pos, "expected 'while' or 'with', got "
                                        \o token_to_str(t))
    ELSE
    LET inv == check_handler_invocation_statement(toks, i)
    IN  IF ~inv.ok THEN inv
        ELSE IF inv.v
        THEN statement_invocation(hs, tok,
                                  invocation_arguments(toks, hs, i + 1, <<>>, 0))
        ELSE statement_expr(toks, hs, line_pos, parse_expression(0, toks, i, hs, TRUE))

\* ---- parse_script_decl ----
\* global / property declarations: the while (true) loop, entered with the
\* reader at the first name; returns [ok, i, scope]
RECURSIVE parse_declarations(_, _, _, _)
parse_declarations(toks, i, sc, decl_global) ==
    IF ~can_peek(toks, i, 0) THEN UnexpectedEOF(toks)
    ELSE
    LET tok        == peek(toks, i, 0)
        set        == IF decl_global THEN sc.globals ELSE sc.properties
        err_prefix == IF decl_global THEN "global '" ELSE "property '"
        sc2        == IF decl_global
                      THEN [sc EXCEPT !.globals = @ \cup {tok.str}]
                      ELSE [sc EXCEPT !.properties = @ \cup {tok.str}]
    IN  IF tok.type # "TOKEN_WORD"
        THEN Throw(tok.pos, type_errorstr("TOKEN_WORD", tok.type))
        ELSE IF tok.str \in set
        THEN Throw(tok.pos, err_prefix \o tok.str \o "' already declared")
        ELSE IF eof(toks, i + 1) \/ ~is_symbol(peek(toks, i + 1, 0), "SYMBOL_COMMA")
        THEN IF ~eof(toks, i + 1)
             THEN IF peek(toks, i + 1, 0).type # "TOKEN_LINE_END"
                  THEN Throw(peek(toks, i + 1, 0).pos,
                           type_errorstr("TOKEN_LINE_END", peek(toks, i + 1, 0).type))
                  ELSE [ok |-> TRUE, i |-> i + 2, scope |-> sc2]
             ELSE [ok |-> TRUE, i |-> i + 1, scope |-> sc2]
        ELSE parse_declarations(toks, i + 2, sc2, decl_global)

\* handler header: the parameter loop; returns [ok, i, params]
RECURSIVE parse_params(_, _, _, _)
parse_params(toks, i, paren, params) ==
    IF ~can_peek(toks, i, 0) THEN UnexpectedEOF(toks)
    ELSE
    LET tok == peek(toks, i, 0)
    IN  IF (IF paren THEN is_symbol(tok, "SYMBOL_RPAREN")
                     ELSE is_a(tok, "TOKEN_LINE_END"))
        THEN [ok |-> TRUE, i |-> i + 1, params |-> params]
        ELSE IF tok.type # "TOKEN_WORD"
        THEN Throw(tok.pos, type_errorstr("TOKEN_WORD", tok.type))
        ELSE IF tok.str \in SeqRange(params)
        THEN Throw(tok.pos, "parameter '" \o tok.str \o "' already declared")
        ELSE IF ~can_peek(toks, i + 1, 0) THEN UnexpectedEOF(toks)
        ELSE parse_params(toks,
                 IF is_symbol(peek(toks, i + 1, 0), "SYMBOL_COMMA")
                 THEN i + 2 ELSE i + 1,
                 paren, Append(params, tok.str))

\* handler header, entered after `on` was popped; returns [ok, i, name, params]
parse_handler_header(toks, i) ==
    IF ~can_peek(toks, i, 0) THEN UnexpectedEOF(toks)
    ELSE
    LET tok == peek(toks, i, 0)
    IN  IF tok.type # "TOKEN_WORD"
        THEN Throw(tok.pos, type_errorstr("TOKEN_WORD", tok.type))
        ELSE IF ~can_peek(toks, i + 1, 0) THEN UnexpectedEOF(toks)
        ELSE
        LET paren == is_symbol(peek(toks, i + 1, 0), "SYMBOL_LPAREN")
            p     == parse_params(toks, IF paren THEN i + 2 ELSE i + 1, paren, <<>>)
        IN  IF ~p.ok THEN p
            ELSE IF ~paren
            THEN [ok |-> TRUE, i |-> p.i, name |-> tok.str, params |-> p.params]
            ELSE IF ~can_peek(toks, p.i, 0) THEN UnexpectedEOF(toks)
            ELSE IF peek(toks, p.i, 0).type # "TOKEN_LINE_END"
            THEN Throw(peek(toks, p.i, 0).pos,
                     type_errorstr("TOKEN_LINE_END", peek(toks, p.i, 0).type))
            ELSE [ok |-> TRUE, i |-> p.i + 1, name |-> tok.str, params |-> p.params]

\* the iteration order of std::set<std::string> over the names of the model
NameOrder == <<"f", "g", "h", "i", "p", "pi", "y">>
set_to_vector(S) == SelectSeq(NameOrder, LAMBDA n : n \in S)

\* ---- the token vectors handed to parse_ast ----
W(s) == make_word(s, NoPos)
K(s) == make_keyword(s, NoPos)
Sy(s) == make_symbol(s, NoPos)
Num(v) == make_integer(v, NoPos)
LE == make_line_end(NoPos)

TopChunks ==
    { <<W("property"), W("p"), LE>>,
      <<W("global"), W("g"), LE>>,
      <<K("on"), W("h"), W("p"), LE>>,
      <<K("on"), W("h"), Sy("("), Sy(")"), LE>> }

EndChunk == <<W("end"), LE>>

BodyChunks ==
    { <<W("y"), Sy("="), Num(1), LE>>,
      <<W("put"), W("y"), LE>>,
      <<W("p"), Sy("="), W("g"), LE>>,
      <<W("pi"), Sy("="), Num(3), LE>>,
      <<W("put"), W("pi"), LE>>,
      <<W("put"), W("p"), Sy("("), Num(1), Sy(")"), LE>>,
      <<W("p"), W("g"), LE>>,
      <<W("return"), W("y"), Sy("["), Sy("-"), W("p"), Sy("]"), LE>>,
      <<W("y"), Sy("."), W("f"), Sy("="), Num(1), LE>>,
      <<W("f"), Sy("("), Num(1), Sy(")"), Sy("="), Num(1), LE>>,
      <<Num(1), Sy("="), Num(1), LE>>,
      <<W("if"), W("p"), K("then"), LE,
        W("y"), Sy("="), W("p"), LE,
        W("end"), W("if"), LE>>,
      <<W("repeat"), W("with"), W("i"), Sy("="), Num(1), W("to"), Num(2), LE,
        W("put"), W("i"), LE,
        W("end"), W("repeat"), LE>> }

Chunks == TopChunks \cup {EndChunk} \cup BodyChunks

\* the number of source characters of a token
token_width(tok) ==
    CASE tok.type \in {"TOKEN_WORD", "TOKEN_KEYWORD", "TOKEN_SYMBOL"} -> Len(tok.str)
      [] tok.type = "TOKEN_INTEGER" -> IF tok.integer < 10 THEN 1 ELSE 2
      [] OTHER -> 1

\* the positions the lexer stamps on the tokens of a chunk that starts on
\* line ln, its lexemes separated by single spaces: a LineEnd carries the
\* position reached after its newline was read
RECURSIVE Stamp(_, _, _, _)
Stamp(c, k, ln, col) ==
    IF k > Len(c) THEN <<>>
    ELSE IF c[k].type = "TOKEN_LINE_END"
    THEN <<[c[k] EXCEPT !.pos = <<ln + 1, 0>>]>> \o Stamp(c, k + 1, ln + 1, 1)
    ELSE <<[c[k] EXCEPT !.pos = <<ln, col>>]>>
             \o Stamp(c, k + 1, ln, col + token_width(c[k]) + 1)

LineEnds(toks) == Cardinality({k \in 1..Len(toks) : toks[k].type = "TOKEN_LINE_END"})

\* what the parser can be handed next: nothing more (the vector is
\* complete), or one more chunk
Deliveries ==
    IF input_done THEN {[toks |-> tokens, done |-> TRUE]}
    ELSE {[toks |-> tokens, done |-> TRUE]} \cup
         {[toks |-> tokens \o Stamp(c, 1, LineEnds(tokens) + 1, 1), done |-> FALSE] :
             c \in {c \in Chunks :
                      /\ LineEnds(tokens) + LineEnds(c) <= MaxLines
                      /\ c \in BodyChunks =>
                            (IF parse_pc = "body" THEN Len(func.body) + 2 ELSE 1)
                                <= MaxBody}}

NoFunc == [pos |-> NoPos, name |-> "", params |-> <<>>, body |-> <<>>,
           locals |-> <<>>]
NoHandlerScope ==
    [globals |-> {}, locals |-> {}, params |-> {},
     parent_scope |-> [properties |-> {}, globals |-> {}],
     introduced |-> <<>>]

InitParseVars ==
    /\ index = 0
    /\ scope = [properties |-> {}, globals |-> {}]
    /\ handler_scope = NoHandlerScope
    /\ func = NoFunc
    /\ root = [properties |-> <<>>, handlers |-> <<>>]
    /\ parse_pc = "decl"
    /\ error = [pos |-> NoPos, msg |-> ""]
    /\ scope_at = <<>>
    /\ introduced_at = <<>>

\* catch (parse_exception except): *error = {pos, msg}; return false
ParseError(r) ==
    /\ parse_pc' = "error"
    /\ error' = [pos |-> r.pos, msg |-> r.msg]
    /\ UNCHANGED <<index, scope, handler_scope, func, root, scope_at, introduced_at>>

\* parse_script_decl on `global` / `property`
ParseDeclaration ==
    /\ parse_pc = "decl"
    /\ \E d \in Deliveries :
          /\ tokens' = d.toks /\ input_done' = d.done
          /\ ~eof(d.toks, index)
          /\ LET tok == peek(d.toks, index, 0)
             IN  /\ is_word(tok, "global") \/ is_word(tok, "property")
                 /\ LET r == parse_declarations(d.toks, index + 1, scope,
                                                is_word(tok, "global"))
                    IN  IF ~r.ok THEN ParseError(r)
                        ELSE /\ index' = r.i
                             /\ scope' = r.scope
                             /\ UNCHANGED <<handler_scope, func, root, parse_pc,
                                            error, scope_at, introduced_at>>
    /\ UNCHANGED nonparsevars

\* parse_script_decl on `on`: the header of a handler, up to its statement loop
ParseHandlerHeader ==
    /\ parse_pc = "decl"
    /\ \E d \in Deliveries :
          /\ tokens' = d.toks /\ input_done' = d.done
          /\ ~eof(d.toks, index)
          /\ LET tok == peek(d.toks, index, 0)
             IN  /\ is_keyword(tok, "KEYWORD_ON")
                 /\ LET r == parse_handler_header(d.toks, index + 1)
                    IN  IF ~r.ok THEN ParseError(r)
                        ELSE /\ index' = r.i
                             /\ func' = [pos |-> tok.pos, name |-> r.name,
                                         params |-> r.params, body |-> <<>>,
                                         locals |-> <<>>]
                             /\ handler_scope' =
                                    [globals |-> {}, locals |-> {},
                                     params |-> SeqRange(r.params),
                                     parent_scope |-> scope,
                                     introduced |-> <<>>]
                             /\ parse_pc' = "body"
                             /\ UNCHANGED <<scope, root, error, scope_at, introduced_at>>
    /\ UNCHANGED nonparsevars

\* parse_script_decl on any other token
ParseUnexpected ==
    /\ parse_pc = "decl"
    /\ \E d \in Deliveries :
          /\ tokens' = d.toks /\ input_done' = d.done
          /\ ~eof(d.toks, index)
          /\ LET tok == peek(d.toks, index, 0)
             IN  /\ ~(is_word(tok, "global") \/ is_word(tok, "property"))
                 /\ ~is_keyword(tok, "KEYWORD_ON")
                 /\ ParseError(Throw(tok.pos, "unexpected " \o token_type_str(tok.type)))
    /\ UNCHANGED nonparsevars

\* one iteration of the statement loop of a handler
ParseStatement ==
    /\ parse_pc = "body"
    /\ \E d \in Deliveries :
          /\ tokens' = d.toks /\ input_done' = d.done
          /\ IF ~can_peek(d.toks, index, 0) THEN ParseError(UnexpectedEOF(d.toks))
             ELSE /\ ~is_word(peek(d.toks, index, 0), "end")
                  /\ LET r == parse_statement(d.toks, index, handler_scope)
                     IN  IF ~r.ok THEN ParseError(r)
                         ELSE /\ index' = r.i
                              /\ func' = [func EXCEPT !.body = Append(@, r.stm)]
                              /\ handler_scope' = r.hs
                              /\ UNCHANGED <<scope, root, parse_pc, error, scope_at, introduced_at>>
    /\ UNCHANGED nonparsevars

\* the statement loop meets `end`: the handler is complete
ParseHandlerEnd ==
    /\ parse_pc = "body"
    /\ \E d \in Deliveries :
          /\ tokens' = d.toks /\ input_done' = d.done
          /\ can_peek(d.toks, index, 0)
          /\ is_word(peek(d.toks, index, 0), "end")
          /\ IF ~can_peek(d.toks, index + 1, 0) THEN ParseError(UnexpectedEOF(d.toks))
             ELSE LET tok == peek(d.toks, index + 1, 0)
                  IN  IF tok.type # "TOKEN_LINE_END"
                      THEN ParseError(Throw(tok.pos,
                               type_errorstr("TOKEN_LINE_END", tok.type)))
                      ELSE /\ index' = index + 2
                           /\ root' = [root EXCEPT !.handlers =
                                  Append(@, [func EXCEPT !.locals =
                                                set_to_vector(handler_scope.locals)])]
                           /\ scope_at' = Append(scope_at, handler_scope.parent_scope)
                           /\ introduced_at' = Append(introduced_at,
                                                      handler_scope.introduced)
                           /\ func' = NoFunc
                           /\ handler_scope' = NoHandlerScope
                           /\ parse_pc' = "decl"
                           /\ UNCHANGED <<scope, error>>
    /\ UNCHANGED nonparsevars

\* the loop of parse_ast ends; the properties are copied; return true
ParseFinish ==
    /\ parse_pc = "decl"
    /\ \E d \in Deliveries :
          /\ tokens' = d.toks /\ input_done' = d.done
          /\ eof(d.toks, index)
          /\ root' = [root EXCEPT !.properties = set_to_vector(scope.properties)]
          /\ parse_pc' = "done"
          /\ UNCHANGED <<index, scope, handler_scope, func, error, scope_at, introduced_at>>
    /\ UNCHANGED nonparsevars


\* ---------------------------------------------------------------------
\* parse_expression<0> on the tokens of one line
\* ---------------------------------------------------------------------
\* the tokens the lines are made of: 2, 1.5, and operators of the four
\* levels of binary operators
ExprAlphabet ==
    {make_integer(2, NoPos), make_float(<<15, 1>>, NoPos),
     make_symbol("-", NoPos), make_symbol("+", NoPos), make_symbol("*", NoPos),
     make_symbol("=", NoPos), make_symbol("&", NoPos), make_keyword("and", NoPos)}

\* a line of tokens as the lexer stamps it: token k at column k of line 1,
\* and the LineEnd that closes it
ExprLine(ts) ==
    [k \in 1..(Len(ts) + 1) |->
        IF k <= Len(ts) THEN [ts[k] EXCEPT !.pos = <<1, k>>]
        ELSE make_line_end(<<2, 0>>)]
ExprLines ==
    {ExprLine(ts) : ts \in UNION {[1..n -> ExprAlphabet] : n \in 1..MaxExpr}}

NoResult == [ok |-> FALSE, pos |-> NoPos, msg |-> ""]

\* parse_expression is not running
ExprIdle == expr_pc = "idle" /\ expr_result = NoResult

\* parse_expression(reader, ctx) in a handler without variables
ParseExpression ==
    /\ expr_pc = "ready"
    /\ expr_result' = parse_expression(0, tokens, 0, NoHandlerScope, FALSE)
    /\ expr_pc' = "parsed"
    /\ UNCHANGED <<tokens, nonexprvars>>

(***************************************************************************)
(* Bytecode generator: gen_handler_scope and generate_chunk                *)
(* (src/src/lingo/lingo_bcgen.cpp).  In the generator and in the VM a      *)
(* string is the sequence of its character codes, and the string pool is a *)
(* sequence of bytes.  An instruction is the record of its opcode and of   *)
(* its operands a (bits 8..23) and b (bits 24..31).                        *)
(***************************************************************************)
\* sizeof(size_t), the length header of a chunk_const_str
SizeofSizeT == 8
\* alignof(bc::chunk_const_str)
AlignofChunkConstStr == 8

\* (addr + alignment - 1) & ~(alignment - 1), alignment a power of two
aligned(alignment, addr) == ((addr + alignment - 1) \div alignment) * alignment

\* appends the length (a size_t, least significant byte first; the lengths
\* here stay below 2^16), the characters and their NUL, then pads
_alloc_string(pool, v) ==
    LET len == [k \in 1..SizeofSizeT |->
                    IF k = 1 THEN Len(v) % 256
                    ELSE IF k = 2 THEN (Len(v) \div 256) % 256 ELSE 0]
        filled == pool \o len \o v \o <<0>>
        next_addr == aligned(AlignofChunkConstStr, Len(filled))
    IN  [string_pool |-> filled \o [k \in 1..(next_addr - Len(filled)) |-> 0],
         string_ptr_idx |-> Len(pool)]

\* a plausible slip: memcmp over len bytes with no comparison of the sizes
chunk_const_str_equal_prefix(pool, off, v) ==
    SubSeq(pool, off + SizeofSizeT + 1, off + SizeofSizeT + Len(v)) = v

\* bc::base_offset(string_pool.data(), c.str)->equal(v, len)
chunk_const_str_equal(pool, off, v) ==
    LET size == pool[off + 1] + 256 * pool[off + 2]
    IN  IF size # Len(v) THEN FALSE
        ELSE SubSeq(pool, off + SizeofSizeT + 1, off + SizeofSizeT + Len(v) + 1)
                 = v \o <<0>>

\* GENERIC_GET_LITERAL: the value member of the union is compared only when
\* the type matches
GENERIC_GET_LITERAL(st, vtype, v) ==
    LET consts == st.chunk_consts
        found == {k \in 1..Len(consts) : consts[k].type = vtype /\ consts[k].u = v}
    IN  IF found # {}
        THEN [st |-> st,
              idx |-> ((CHOOSE k \in found : \A j \in found : k <= j) - 1) % 65536]
        ELSE [st |-> [st EXCEPT !.chunk_consts = Append(@, [type |-> vtype, u |-> v])],
              idx |-> Len(consts) % 65536]

_get_strbased_const(st, type, v) ==
    LET consts == st.chunk_consts
        found == {k \in 1..Len(consts) :
                     /\ consts[k].type = type
                     /\ chunk_const_str_equal(st.string_pool, consts[k].u, v)}
        alloc_str == _alloc_string(st.string_pool, v)
    IN  IF found # {}
        THEN [st |-> st,
              idx |-> ((CHOOSE k \in found : \A j \in found : k <= j) - 1) % 65536]
        ELSE [st |-> [st EXCEPT !.string_pool = alloc_str.string_pool,
                                !.chunk_consts =
                                    Append(@, [type |-> type,
                                               u |-> alloc_str.string_ptr_idx])],
              idx |-> Len(consts) % 65536]

\* get_literal(int32_t), get_literal(double), get_literal(const std::string &)
get_literal(st, vtype, v) ==
    IF vtype = "TYPE_STRING" THEN _get_strbased_const(st, "TYPE_STRING", v)
    ELSE GENERIC_GET_LITERAL(st, vtype, v)

get_symbol(st, v) == _get_strbased_const(st, "TYPE_SYMBOL", v)

register_local(st, name) ==
    LET alloc_str == _alloc_string(st.string_pool, name)
    IN  [st EXCEPT !.local_indices =
                       [n \in DOMAIN @ \cup {name} |->
                            IF n = name THEN st.next_local_idx ELSE @[n]],
                   !.string_pool = alloc_str.string_pool,
                   !.local_name_refs = Append(@, alloc_str.string_ptr_idx),
                   !.next_local_idx = @ + 1]

\* scope.instrs.push_back(INSTR_16_8(op, a, b)); INSTR(op) is INSTR_16_8(op, 0, 0)
emit(st, op, a, b) ==
    [st EXCEPT !.instrs = Append(@, [op |-> op, a |-> a % 65536, b |-> b % 256])]

\* the switch on data->op of EXPR_BINOP
binop_instrs(st, op) ==
    CASE op = "EXPR_BINOP_AND" -> emit(st, "OP_AND", 0, 0)
      [] op = "EXPR_BINOP_OR" -> emit(st, "OP_OR", 0, 0)
      [] op = "EXPR_BINOP_ADD" -> emit(st, "OP_ADD", 0, 0)
      [] op = "EXPR_BINOP_SUB" -> emit(st, "OP_SUB", 0, 0)
      [] op = "EXPR_BINOP_MUL" -> emit(st, "OP_MUL", 0, 0)
      [] op = "EXPR_BINOP_DIV" -> emit(st, "OP_DIV", 0, 0)
      [] op = "EXPR_BINOP_MOD" -> emit(st, "OP_MOD", 0, 0)
      [] op = "EXPR_BINOP_CONCAT" -> emit(st, "OP_CONCAT", 0, 0)
      [] op = "EXPR_BINOP_CONCAT_WITH_SPACE" -> emit(st, "OP_CONCATSP", 0, 0)
      [] op = "EXPR_BINOP_EQ" -> emit(st, "OP_EQ", 0, 0)
      [] op = "EXPR_BINOP_NEQ" -> emit(emit(st, "OP_EQ", 0, 0), "OP_NOT", 0, 0)
      [] op = "EXPR_BINOP_GT" -> emit(st, "OP_GT", 0, 0)
      [] op = "EXPR_BINOP_LT" -> emit(st, "OP_LT", 0, 0)
      [] op = "EXPR_BINOP_GE" -> emit(st, "OP_GTE", 0, 0)
      [] op = "EXPR_BINOP_LE" -> emit(st, "OP_LTE", 0, 0)
      [] OTHER -> [st EXCEPT !.aborted = @ \/ ~ndebug]

RECURSIVE generate_expr(_, _, _)
RECURSIVE generate_list_items(_, _, _, _)

\* an assert(false) aborts the process unless the build defines NDEBUG; a
\* gen_exception leaves generate_chunk
generate_expr(expr, st, assignment) ==
    CASE expr.type = "EXPR_LITERAL" ->
            (CASE expr.literal_type = "EXPR_LITERAL_FLOAT" ->
                    LET r == get_literal(st, "TYPE_FLOAT", expr.floatv)
                    IN  emit(r.st, "OP_LOADC", r.idx, 0)
               [] expr.literal_type = "EXPR_LITERAL_INTEGER" ->
                    IF expr.intv = 0 THEN emit(st, "OP_LOADI0", 0, 0)
                    ELSE IF expr.intv = 1 THEN emit(st, "OP_LOADI1", 0, 0)
                    ELSE LET r == get_literal(st, "TYPE_INT", expr.intv)
                         IN  emit(r.st, "OP_LOADC", r.idx, 0)
               [] expr.literal_type = "EXPR_LITERAL_STRING" ->
                    LET r == get_literal(st, "TYPE_STRING", expr.str)
                    IN  emit(r.st, "OP_LOADC", r.idx, 0)
               [] expr.literal_type = "EXPR_LITERAL_SYMBOL" ->
                    LET r == get_symbol(st, expr.str)
                    IN  emit(r.st, "OP_LOADC", r.idx, 0)
               [] expr.literal_type = "EXPR_LITERAL_VOID" ->
                    emit(st, "OP_LOADVOID", 0, 0))
      [] expr.type = "EXPR_IDENTIFIER" ->
            (CASE expr.scope = "SCOPE_LOCAL" ->
                    \* get_local_index
                    IF expr.identifier \in DOMAIN st.local_indices
                    THEN emit(st, IF assignment THEN "OP_STOREL" ELSE "OP_LOADL",
                              st.local_indices[expr.identifier], 0)
                    ELSE emit([st EXCEPT !.aborted = @ \/ ~ndebug],
                              IF assignment THEN "OP_STOREL" ELSE "OP_LOADL",
                              65535, 0)
               [] expr.scope = "SCOPE_GLOBAL" ->
                    LET r == get_symbol(st, expr.identifier)
                    IN  emit(r.st, IF assignment THEN "OP_STOREG" ELSE "OP_LOADG",
                             r.idx, 0)
               [] expr.scope = "SCOPE_PROPERTY" ->
                    LET r == get_symbol(emit(st, "OP_LOADL0", 0, 0), expr.identifier)
                    IN  emit(emit(r.st, "OP_LOADC", r.idx, 0),
                             IF assignment THEN "OP_OIDXS" ELSE "OP_OIDXG", 0, 0))
      [] expr.type = "EXPR_THE" ->
            [st EXCEPT !.instrs = Append(@, [op |-> "OP_THE", a |-> expr.identifier,
                                             b |-> 0])]
      [] expr.type = "EXPR_LIST" ->
            LET r == get_symbol(emit(st, "OP_NEWLLIST", Len(expr.items), 0),
                                <<97, 100, 100>>)  \* "add"
            IN  generate_list_items(expr.items, 1, r.st, r.idx)
      [] expr.type = "EXPR_BINOP" ->
            binop_instrs(generate_expr(expr.right,
                                       generate_expr(expr.left, st, FALSE), FALSE),
                         expr.op)
      [] expr.type = "EXPR_UNOP" ->
            emit(generate_expr(expr.expr, st, FALSE),
                 IF expr.op = "EXPR_UNOP_NEG" THEN "OP_UNM" ELSE "OP_NOT", 0, 0)
      [] expr.type \in {"EXPR_PROP_LIST", "EXPR_CALL", "EXPR_DOT", "EXPR_INDEX"} ->
            [st EXCEPT !.aborted = @ \/ ~ndebug]
      [] OTHER -> [st EXCEPT !.thrown = TRUE]

\* for (auto &elem : data->items)
generate_list_items(items, k, st, add_str_idx) ==
    IF k > Len(items) THEN st
    ELSE generate_list_items(
             items, k + 1,
             emit(emit(generate_expr(items[k], emit(st, "OP_DUP", 0, 0), FALSE),
                       "OP_OCALL", add_str_idx, 1),
                  "OP_POP", 0, 0),
             add_str_idx)

generate_statement(stm, st) ==
    CASE stm.type = "STATEMENT_EXPR" ->
            emit(generate_expr(stm.expr, st, FALSE), "OP_POP", 0, 0)
      [] stm.type = "STATEMENT_ASSIGN" ->
            generate_expr(stm.lvalue, generate_expr(stm.rvalue, st, FALSE), TRUE)
      [] stm.type = "STATEMENT_RETURN" ->
            emit(IF stm.expr # nullptr THEN generate_expr(stm.expr, st, FALSE)
                 ELSE emit(st, "OP_LOADVOID", 0, 0),
                 "OP_RET", 0, 0)
      [] stm.type = "STATEMENT_PUT" ->
            emit(generate_expr(stm.expr, st, FALSE), "OP_PUT", 0, 0)
      [] stm.type \in {"STATEMENT_PUT_ON", "STATEMENT_EXIT_REPEAT",
                       "STATEMENT_NEXT_REPEAT", "STATEMENT_IF",
                       "STATEMENT_REPEAT_WHILE", "STATEMENT_REPEAT_TO",
                       "STATEMENT_REPEAT_IN", "STATEMENT_CASE"} ->
            [st EXCEPT !.aborted = @ \/ ~ndebug]
      [] OTHER -> [st EXCEPT !.thrown = TRUE]

\* for (it = handler.params.begin(); ...) scope.register_local(*it);
RECURSIVE register_locals(_, _, _)
register_locals(st, names, k) ==
    IF k > Len(names) THEN st
    ELSE register_locals(register_local(st, names[k]), names, k + 1)

\* "me (implicit)"
MeImplicit == <<109, 101, 32, 40, 105, 109, 112, 108, 105, 99, 105, 116, 41>>

\* a plausible slip: the locals registered before the parameters
register_handler_locals_first(st, params, locals) ==
    LET ls == register_locals(st, locals, 1)
    IN  IF Len(params) = 0 THEN register_local(ls, MeImplicit)
        ELSE register_locals(ls, params, 1)

\* generate_chunk: the three registrations of names, in their order
register_handler(st, params, locals) ==
    register_locals(IF Len(params) = 0 THEN register_local(st, MeImplicit)
                    ELSE register_locals(st, params, 1),
                    locals, 1)

\* chunk_header.nargs once the names are registered
chunk_nargs(params) ==
    IF Len(params) = 0 THEN (Len(params) % 256) + 1 ELSE Len(params) % 256

\* ---- the handlers handed to generate_chunk ----
GenInt(v) == literal_make_int(NoPos, v)
GenStr(lt, v) == ast_expr_literal(NoPos, lt, v, 0, NoNumber)
\* params and locals of the handler: `on h` and `on h a` with a local b
GenHeaders ==
    {[params |-> <<>>, locals |-> <<>>],
     [params |-> << <<97>> >>, locals |-> << <<98>> >>]}
\* put 0 < 0; put 1; put 2; put 1.5; put "a"; put "ab"; put #a; put a (a
\* global); a = 2 (a property); put [#add]; put f(2); return
GenStatements ==
    {ast_statement_put(NoPos, ast_expr_binop(NoPos, GenInt(0), GenInt(0),
                                             "EXPR_BINOP_LT")),
     ast_statement_put(NoPos, GenInt(1)),
     ast_statement_put(NoPos, GenInt(2)),
     ast_statement_put(NoPos, literal_make_float(NoPos, <<15, 1>>)),
     ast_statement_put(NoPos, GenStr("EXPR_LITERAL_STRING", <<97>>)),
     ast_statement_put(NoPos, GenStr("EXPR_LITERAL_STRING", <<97, 98>>)),
     ast_statement_put(NoPos, GenStr("EXPR_LITERAL_SYMBOL", <<97>>)),
     ast_statement_put(NoPos, ast_expr_identifier(NoPos, <<97>>, "SCOPE_GLOBAL")),
     ast_statement_assign(NoPos, ast_expr_identifier(NoPos, <<97>>, "SCOPE_PROPERTY"),
                          GenInt(2)),
     ast_statement_put(NoPos, [type |-> "EXPR_LIST", pos |-> NoPos,
                               items |-> <<GenStr("EXPR_LITERAL_SYMBOL",
                                                  <<97, 100, 100>>)>>]),
     ast_statement_put(NoPos, ast_expr_call(NoPos, <<102>>, <<GenInt(2)>>)),
     ast_statement_return(NoPos, nullptr)}

\* gen_handler_scope(script_scope)
NewScope ==
    [string_pool |-> <<>>, instrs |-> <<>>, chunk_consts |-> <<>>,
     local_name_refs |-> <<>>, local_indices |-> <<>>, next_local_idx |-> 0,
     aborted |-> FALSE, thrown |-> FALSE]

\* no chunk was written
NoChunk == [written |-> FALSE]

\* the values a byte that was never written can have
IndeterminateBytes == {0, 170}

\* sizeof(bc::vtype), sizeof(int32_t), and the alignment and the size of the
\* union of bc::chunk_const
SizeofVtype == 1
SizeofInt32 == 4
SizeofConstUnion == 8

\* the bytes of a bc::chunk_const in chunk_consts: the constructors write
\* the type and one member of the union; the padding between them, and the
\* rest of the union behind an int32_t, is never written
chunk_const_image(c, junk) ==
    [type |-> c.type,
     padding |-> [k \in 1..(SizeofConstUnion - SizeofVtype) |-> junk],
     member |-> c.u,
     rest |-> IF c.type = "TYPE_INT"
              THEN [k \in 1..(SizeofConstUnion - SizeofInt32) |-> junk]
              ELSE <<>>]

\* what out.resize and the five memcpy leave in `out`: the header, the
\* instruction words, the constants, the string pool, the local names
chunk_image(hd, st, junk) ==
    [written |-> TRUE,
     header |-> hd,
     instrs |-> st.instrs,
     consts |-> [k \in DOMAIN st.chunk_consts |->
                    chunk_const_image(st.chunk_consts[k], junk)],
     string_pool |-> st.string_pool,
     local_names |-> st.local_name_refs]

\* scope.instrs.push_back(INSTR(bc::OP_LOADVOID)); ...(INSTR(bc::OP_RET))
generate_chunk_end(st) == emit(emit(st, "OP_LOADVOID", 0, 0), "OP_RET", 0, 0)

\* chunk_header.nconsts, .ninstr, .nlocals
header_counts(hd, st, handler) ==
    [hd EXCEPT !.nconsts = Len(st.chunk_consts) % 65536,
               !.ninstr = Len(st.instrs),
               !.nlocals = Len(handler.locals) % 65536]

\* for (auto &stm : handler.body) generate_statement(stm, scope);
RECURSIVE generate_body(_, _, _)
generate_body(body, k, st) ==
    IF k > Len(body) \/ st.aborted \/ st.thrown THEN st
    ELSE generate_body(body, k + 1, generate_statement(body[k], st))

InitGenVars ==
    /\ gen_scope = NewScope
    /\ chunk_header = [nargs |-> 0, nconsts |-> 0, ninstr |-> 0, nlocals |-> 0]
    /\ gen_handler = [params |-> <<>>, locals |-> <<>>, body |-> <<>>]
    /\ out = NoChunk
    /\ out_again = NoChunk
    /\ gen_pc = "begin"

\* generate_chunk up to the loop over handler.body
GenerateChunkBegin ==
    /\ gen_pc = "begin"
    /\ \E h \in GenHeaders :
        /\ gen_handler' = [gen_handler EXCEPT !.params = h.params,
                                              !.locals = h.locals]
        /\ IF Len(h.params) > 255 \/ Len(h.locals) > 65535
           THEN /\ gen_pc' = "error"
                /\ UNCHANGED <<gen_scope, chunk_header>>
           ELSE /\ gen_scope' = register_handler(gen_scope, h.params, h.locals)
                /\ chunk_header' =
                     [chunk_header EXCEPT !.nargs = chunk_nargs(h.params)]
                /\ gen_pc' = "body"
    /\ UNCHANGED <<ndebug, out, out_again, nongenvars>>

\* one round of `for (auto &stm : handler.body) generate_statement(stm, scope);`
GenerateStatement ==
    /\ gen_pc = "body"
    /\ Len(gen_handler.body) < MaxGen
    /\ \E stm \in GenStatements :
        /\ gen_handler' = [gen_handler EXCEPT !.body = Append(@, stm)]
        /\ gen_scope' = generate_statement(stm, gen_scope)
    /\ gen_pc' = IF gen_scope'.aborted THEN "aborted"
                 ELSE IF gen_scope'.thrown THEN "error" ELSE "body"
    /\ UNCHANGED <<chunk_header, ndebug, out, out_again, nongenvars>>

\* generate_chunk after the loop: the closing LOADVOID / RET, the header
\* and the copy into `out`
GenerateChunkEnd ==
    /\ gen_pc = "body"
    /\ gen_scope' = generate_chunk_end(gen_scope)
    /\ IF Len(gen_scope.chunk_consts) > 65535
       THEN gen_pc' = "error" /\ UNCHANGED <<chunk_header, out>>
       ELSE /\ chunk_header' = header_counts(chunk_header, gen_scope', gen_handler)
            /\ \E junk \in IndeterminateBytes :
                   out' = chunk_image(chunk_header', gen_scope', junk)
            /\ gen_pc' = "done"
    /\ UNCHANGED <<gen_handler, ndebug, out_again, nongenvars>>

\* compile_bytecode once more on the same source: generate_chunk on the
\* same handler, from a new gen_handler_scope
CompileAgain ==
    /\ gen_pc = "done"
    /\ LET st == generate_chunk_end(
                     generate_body(gen_handler.body, 1,
                         register_handler(NewScope, gen_handler.params,
                                          gen_handler.locals)))
           hd == header_counts([chunk_header EXCEPT
                                    !.nargs = chunk_nargs(gen_handler.params)],
                               st, gen_handler)
       IN  \E junk \in IndeterminateBytes :
               out_again' = IF st.thrown THEN NoChunk
                            ELSE chunk_image(hd, st, junk)
    /\ gen_pc' = "again"
    /\ UNCHANGED <<gen_scope, chunk_header, ndebug, gen_handler, out, nongenvars>>

(***************************************************************************)
(* The stack VM: lingo::vm::runner (src/src/lingo/vm/vm.cpp, vm.hpp).      *)
(* A variant is the record of its type and of the member u of its union;   *)
(* a reference is the index in heap of the object `new` returned.  Nothing *)
(* is ever deleted: the runner has no garbage collector.                   *)
(***************************************************************************)
\* the range of int32_t
INT_MAX == 2147483647
INT_MIN == -2147483647 - 1

\* the order of the enumerators of bc::vtype
TypeRank(t) ==
    CASE t = "TYPE_VOID" -> 0 [] t = "TYPE_INT" -> 1 [] t = "TYPE_FLOAT" -> 2
      [] t = "TYPE_STRING" -> 3 [] t = "TYPE_SYMBOL" -> 4

\* a plausible slip: the negation of memcmp's result left out
string_eq_memcmp(a, b) == Len(a) = Len(b) /\ a # b

\* vm::string::operator==
string_eq(a, b) == Len(a) = Len(b) /\ a = b

\* std::hash<lingo::vm::string>: the first character (the terminating NUL of
\* an empty string) plus 53 times each of the next, up to 32 characters
string_hash(k) ==
    LET count == IF Len(k) > 32 THEN 32 ELSE Len(k)
        res[i \in 0..count] ==
            IF i = 0 THEN 0
            ELSE IF i = 1 THEN k[1]
            ELSE res[i - 1] + k[i] * 53
    IN  res[count]

\* _symbol_intern.find(k): the entries of the bucket of k whose key equals k
symbol_intern_find(table, k) ==
    {e \in table : string_hash(e.key) = string_hash(k) /\ string_eq(e.key, k)}

\* string(&str->first, str->size) for the chunk_const_str at an offset of
\* the chunk's string pool
const_str(string_pool, off) ==
    LET size == string_pool[off + 1] + 256 * string_pool[off + 2]
    IN  SubSeq(string_pool, off + SizeofSizeT + 1, off + SizeofSizeT + size)

\* std::stoi (frac = FALSE) and std::stod (frac = TRUE) on a string of
\* decimal digits: white space, a sign, digits and, for stod, a fraction;
\* std::invalid_argument without a digit.  The value is the decimal
\* m / 10^k in lowest form.
sto_number(s, frac) ==
    LET isws(c) == c = 32 \/ c \in 9..13
        isdig(c) == c \in 48..57
        ws == CHOOSE n \in 0..Len(s) :
                  /\ \A i \in 1..n : isws(s[i])
                  /\ n = Len(s) \/ ~isws(s[n + 1])
        signed == ws < Len(s) /\ s[ws + 1] \in {43, 45}
        from == IF signed THEN ws + 1 ELSE ws
        run(at) == CHOOSE n \in 0..(Len(s) - at) :
                       /\ \A i \in 1..n : isdig(s[at + i])
                       /\ at + n = Len(s) \/ ~isdig(s[at + n + 1])
        nint == run(from)
        dot == frac /\ from + nint < Len(s) /\ s[from + nint + 1] = 46
        nfrac == IF dot THEN run(from + nint + 1) ELSE 0
        digit(i) == IF i <= nint THEN s[from + i] - 48 ELSE s[from + i + 1] - 48
        val[i \in 0..(nint + nfrac)] ==
            IF i = 0 THEN 0 ELSE val[i - 1] * 10 + digit(i)
        mag == val[nint + nfrac]
    IN  IF nint + nfrac = 0 THEN [thrown |-> TRUE, v |-> <<0, 0>>]
        ELSE [thrown |-> FALSE,
              v |-> NormDec(IF signed /\ s[ws + 1] = 45 THEN 0 - mag ELSE mag, nfrac)]

\* OP_EQ: the comparison of the two topmost values, a the lower, b the upper
op_eq(x, y, objects) ==
    LET swap == TypeRank(y.type) < TypeRank(x.type)
        a == IF swap THEN y ELSE x
        b == IF swap THEN x ELSE y
        Res(r) == [thrown |-> FALSE, res |-> r]
    IN  CASE a.type = "TYPE_VOID" -> Res(b.type = "TYPE_VOID")
          [] a.type = "TYPE_INT" ->
                IF b.type = "TYPE_INT" THEN Res(a.u = b.u)
                ELSE IF b.type = "TYPE_FLOAT" THEN Res(<<a.u, 0>> = b.u)
                ELSE IF b.type = "TYPE_STRING"
                THEN LET str_b == objects[b.u]
                         is_real == \E i \in 1..Len(str_b) : str_b[i] = 46
                         n == sto_number(str_b, is_real)
                     IN  [thrown |-> n.thrown,
                          res |-> ~n.thrown /\ <<a.u, 0>> = n.v]
                ELSE Res(FALSE)
          [] a.type = "TYPE_FLOAT" ->
                IF b.type = "TYPE_STRING"
                THEN LET n == sto_number(objects[b.u], TRUE)
                     IN  [thrown |-> n.thrown, res |-> ~n.thrown /\ a.u = n.v]
                ELSE Res(FALSE)
          [] a.type = "TYPE_STRING" ->
                IF b.type \in {"TYPE_STRING", "TYPE_SYMBOL"}
                THEN Res(string_eq(objects[a.u], objects[b.u]))
                ELSE Res(FALSE)
          [] a.type = "TYPE_SYMBOL" ->
                IF b.type = "TYPE_SYMBOL" THEN Res(a.u = b.u) ELSE Res(FALSE)
          [] OTHER -> Res(FALSE)

\* ---- the chunks handed to runner::run ----
\* the constant pool and the string pool the generator builds for the
\* constants #abc, #acb, "abc" (first chunk) and "1", #acb, #abc (second
\* chunk), where "abc" and "acb" have the same hash; for the integers
\* INT_MAX, INT_MIN, -1, 7 (third chunk); and for 4, 2.5, 0.5, "abc", #abc
\* (fourth chunk)
VMChunkOf(st) ==
    [const_pool |-> st.chunk_consts, string_pool |-> st.string_pool]
RECURSIVE VMScopeOf(_, _, _)
VMScopeOf(st, keys, k) ==
    IF k > Len(keys) THEN st
    ELSE VMScopeOf(IF keys[k].type = "TYPE_SYMBOL" THEN get_symbol(st, keys[k].v).st
                   ELSE get_literal(st, keys[k].type, keys[k].v).st,
                   keys, k + 1)
VMChunks ==
    LET abc == <<97, 98, 99>>
        acb == <<97, 99, 98>>
        new == register_local(NewScope, MeImplicit)
        Const(t, v) == [type |-> t, v |-> v]
    IN  <<VMChunkOf(get_literal(get_symbol(get_symbol(new, abc).st, acb).st,
                                "TYPE_STRING", abc).st),
          VMChunkOf(get_symbol(get_symbol(get_literal(new, "TYPE_STRING", <<49>>).st,
                                          acb).st, abc).st),
          VMChunkOf(VMScopeOf(new, <<Const("TYPE_INT", INT_MAX),
                                     Const("TYPE_INT", INT_MIN),
                                     Const("TYPE_INT", -1),
                                     Const("TYPE_INT", 7)>>, 1)),
          VMChunkOf(VMScopeOf(new, <<Const("TYPE_INT", 4),
                                     Const("TYPE_FLOAT", <<25, 1>>),
                                     Const("TYPE_FLOAT", <<5, 1>>),
                                     Const("TYPE_STRING", abc),
                                     Const("TYPE_SYMBOL", abc)>>, 1))>>
\* the scripts: the two chunks with symbols; the chunk with the extreme
\* integers; the chunk with numbers, a string and a symbol
InternProgram == {1, 2}
ArithPrograms == {{3}, {4}}
\* the number of instructions executed of a script
ExecLimit == IF vm_program = InternProgram THEN MaxExec ELSE MaxArith

NoOp == [op |-> "none"]
\* the record of an instruction executed: where it was, the depth of the
\* stack it found, and the two topmost values, a below b
Executed(op, outcome) ==
    [op |-> op, outcome |-> outcome, ip |-> ip, depth |-> Len(_stack),
     a |-> IF Len(_stack) >= 2 THEN _stack[Len(_stack) - 1] ELSE NoOp,
     b |-> IF Len(_stack) >= 1 THEN _stack[Len(_stack)] ELSE NoOp]

\* runner::runner()
InitVMVars ==
    /\ _stack = <<>>
    /\ _symbol_intern = {}
    /\ heap = <<>>
    /\ vm_chunk = 0
    /\ ip = 0
    /\ vm_pc = "idle"
    /\ executed = 0
    /\ sym_loads = {}
    /\ last_eq = [done |-> FALSE]
    /\ last_op = NoOp

\* bc::instr istr = *(ip++) for an instruction the program can hold at ip
Fetch ==
    /\ vm_pc = "run" /\ executed < ExecLimit
    /\ executed' = executed + 1

\* runner::run(chunk) up to the first instruction
Run ==
    /\ vm_pc = "idle"
    /\ \E c \in vm_program : vm_chunk' = c
    /\ ip' = 0
    /\ vm_pc' = "run"
    /\ UNCHANGED <<_stack, _symbol_intern, heap, vm_program, executed, sym_loads,
                   last_eq, last_op, nonvmvars>>

\* case bc::OP_LOADC
OpLoadC ==
    /\ Fetch
    /\ ip' = ip + 1
    /\ last_op' = Executed("OP_LOADC", "done")
    /\ \E u16_a \in 0..(Len(VMChunks[vm_chunk].const_pool) - 1) :
        LET c == VMChunks[vm_chunk].const_pool[u16_a + 1]
            str == const_str(VMChunks[vm_chunk].string_pool, c.u)
            it == symbol_intern_find(_symbol_intern, str)
            obj == Len(heap) + 1    \* what `new string` returns
        IN  CASE c.type = "TYPE_VOID" ->
                    /\ _stack' = Append(_stack, [type |-> "TYPE_VOID", u |-> 0])
                    /\ UNCHANGED <<_symbol_intern, heap, sym_loads>>
              [] c.type \in {"TYPE_INT", "TYPE_FLOAT"} ->
                    /\ _stack' = Append(_stack, [type |-> c.type, u |-> c.u])
                    /\ UNCHANGED <<_symbol_intern, heap, sym_loads>>
              [] c.type = "TYPE_STRING" ->
                    /\ heap' = Append(heap, str)
                    /\ _stack' = Append(_stack, [type |-> "TYPE_STRING", u |-> obj])
                    /\ UNCHANGED <<_symbol_intern, sym_loads>>
              [] c.type = "TYPE_SYMBOL" ->
                    LET gc_str == IF it = {} THEN obj
                                  ELSE (CHOOSE e \in it : TRUE).value
                    IN  /\ IF it = {}
                           THEN /\ heap' = Append(heap, str)
                                /\ _symbol_intern' =
                                       _symbol_intern \cup
                                           {[key |-> str, value |-> gc_str]}
                           ELSE UNCHANGED <<heap, _symbol_intern>>
                        /\ _stack' = Append(_stack, [type |-> "TYPE_SYMBOL",
                                                     u |-> gc_str])
                        /\ sym_loads' = sym_loads \cup
                               {[chunk |-> vm_chunk, idx |-> u16_a, chars |-> str,
                                 ref |-> gc_str]}
    /\ UNCHANGED <<vm_program, vm_chunk, vm_pc, last_eq, nonvmvars>>

\* case bc::OP_EQ; std::stoi and std::stod throw out of run()
OpEq ==
    /\ Fetch
    /\ Len(_stack) >= 2
    /\ ip' = ip + 1
    /\ LET a == _stack[Len(_stack) - 1]
           b == _stack[Len(_stack)]
           r == op_eq(a, b, heap)
       IN  IF r.thrown
           THEN /\ vm_pc' = "terminated"
                /\ last_op' = Executed("OP_EQ", "thrown")
                /\ UNCHANGED <<_stack, last_eq>>
           ELSE /\ _stack' = Append(SubSeq(_stack, 1, Len(_stack) - 2),
                                    [type |-> "TYPE_INT",
                                     u |-> IF r.res THEN 1 ELSE 0])
                /\ last_eq' = [done |-> TRUE, a |-> a, b |-> b,
                               res |-> _stack'[Len(_stack')]]
                /\ last_op' = Executed("OP_EQ", "done")
                /\ UNCHANGED vm_pc
    /\ UNCHANGED <<_symbol_intern, heap, vm_program, vm_chunk, sym_loads,
                   nonvmvars>>

\* case bc::OP_POP
OpPop ==
    /\ Fetch
    /\ Len(_stack) >= 1
    /\ ip' = ip + 1
    /\ _stack' = SubSeq(_stack, 1, Len(_stack) - 1)
    /\ last_op' = Executed("OP_POP", "done")
    /\ UNCHANGED <<_symbol_intern, heap, vm_program, vm_chunk, vm_pc, sym_loads,
                   last_eq, nonvmvars>>

\* case bc::OP_RET in the outermost frame: run() returns
OpRet ==
    /\ Fetch
    /\ ip' = ip + 1
    /\ vm_pc' = "idle"
    /\ last_op' = Executed("OP_RET", "done")
    /\ UNCHANGED <<_stack, _symbol_intern, heap, vm_program, vm_chunk, sym_loads,
                   last_eq, nonvmvars>>


\* ---------------------------------------------------------------------
\* The arithmetic and the branches of lingo::vm::runner::run
\* (src/lingo/vm/vm.cpp).  An int32_t is an integer of INT_MIN..INT_MAX.
\* A double is the decimal <<m, k>> = m / 10^k, or one of the three
\* values below whose exponent is -1.
\* ---------------------------------------------------------------------
F_NAN == <<0, -1>>
F_INF == <<1, -1>>
F_NEGINF == <<-1, -1>>
isfinite(x) == x[2] >= 0
signum(m) == IF m > 0 THEN 1 ELSE IF m < 0 THEN -1 ELSE 0

\* int32_t + int32_t when the sum is not representable: what the two's
\* complement addition of the hardware leaves
add_overflows(a, b) ==
    \/ b > 0 /\ a > INT_MAX - b
    \/ b < 0 /\ a < INT_MIN - b
wrap_add(a, b) ==
    IF b > 0 /\ a > INT_MAX - b THEN (a + INT_MIN) + (b + INT_MIN)
    ELSE IF b < 0 /\ a < INT_MIN - b THEN (a - INT_MIN) + (b - INT_MIN)
    ELSE a + b

sub_overflows(a, b) ==
    \/ b < 0 /\ a > INT_MAX + b
    \/ b > 0 /\ a < INT_MIN + b
wrap_sub(a, b) ==
    IF b = INT_MIN THEN wrap_add(wrap_add(a, INT_MAX), 1)
    ELSE wrap_add(a, 0 - b)

\* the quotient of the C++ operator / on integers: truncated toward zero
trunc_div(a, b) ==
    IF b = INT_MIN THEN (IF a = INT_MIN THEN 1 ELSE 0)
    ELSE LET q == a \div b
             exact == a % (IF b > 0 THEN b ELSE 0 - b) = 0
         IN  IF exact \/ ((a > 0) = (b > 0)) THEN q ELSE q + 1

RECURSIVE wrap_mul(_, _)
wrap_mul(a, b) ==
    IF b = 0 THEN 0
    ELSE IF b = -1 THEN wrap_sub(0, a)
    ELSE CHOOSE p \in {wrap_add(wrap_add(h, h), IF b % 2 = 1 THEN a ELSE 0) :
                          h \in {wrap_mul(a, b \div 2)}} : TRUE
mul_overflows(a, b) ==
    /\ a # 0 /\ b # 0
    /\ \/ a = -1 /\ b = INT_MIN
       \/ b = -1 /\ a = INT_MIN
       \/ /\ a # -1 /\ b # -1
          /\ trunc_div(wrap_mul(a, b), a) # b

\* (double)a->i32
to_double(i) == <<i, 0>>

\* double + double, double - double, double * double, double / double
f_add(x, y) ==
    IF x = F_NAN \/ y = F_NAN THEN F_NAN
    ELSE IF ~isfinite(x) THEN (IF isfinite(y) \/ y = x THEN x ELSE F_NAN)
    ELSE IF ~isfinite(y) THEN y
    ELSE LET k == IF x[2] > y[2] THEN x[2] ELSE y[2]
         IN  NormDec(x[1] * Pow10(k - x[2]) + y[1] * Pow10(k - y[2]), k)
f_neg(x) == <<0 - x[1], x[2]>>
f_sub(x, y) == f_add(x, f_neg(y))
f_mul(x, y) ==
    IF x = F_NAN \/ y = F_NAN THEN F_NAN
    ELSE IF ~isfinite(x) \/ ~isfinite(y)
    THEN <<signum(x[1]) * signum(y[1]), -1>>
    ELSE NormDec(x[1] * y[1], x[2] + y[2])
\* the digits after the point a quotient is computed to
DivDigits == 5
f_div(x, y) ==
    IF x = F_NAN \/ y = F_NAN THEN F_NAN
    ELSE IF ~isfinite(x) THEN (IF isfinite(y)
                               THEN <<x[1] * (IF y[1] < 0 THEN -1 ELSE 1), -1>>
                               ELSE F_NAN)
    ELSE IF ~isfinite(y) THEN <<0, 0>>
    ELSE IF y[1] = 0 THEN <<signum(x[1]), -1>>
    ELSE NormDec(trunc_div(x[1] * Pow10(y[2] + DivDigits), y[1] * Pow10(x[2])),
                 DivDigits)

\* what `return 1` after "... invalid operand", leaving the operands on the
\* stack, is; what storing `result` over the first operand is; what an
\* operation the language leaves undefined is
Error == [outcome |-> "error"]
Pushed(type, u) == [outcome |-> "pushed", result |-> [type |-> type, u |-> u]]
Undefined == [outcome |-> "undefined"]

\* a->i32 op b->i32: where the signed operation overflows or divides by
\* zero the behaviour is undefined: the builds leave the wrapped result
\* (for a zero divisor the 0 of a division instruction that does not trap),
\* or do anything else
int_arith(op, a, b) ==
    CASE op = "OP_ADD" ->
            IF add_overflows(a, b)
            THEN {Pushed("TYPE_INT", wrap_add(a, b)), Undefined}
            ELSE {Pushed("TYPE_INT", a + b)}
      [] op = "OP_SUB" ->
            IF sub_overflows(a, b)
            THEN {Pushed("TYPE_INT", wrap_sub(a, b)), Undefined}
            ELSE {Pushed("TYPE_INT", a - b)}
      [] op = "OP_MUL" ->
            IF mul_overflows(a, b)
            THEN {Pushed("TYPE_INT", wrap_mul(a, b)), Undefined}
            ELSE {Pushed("TYPE_INT", a * b)}
      [] op = "OP_DIV" ->
            IF b = 0 THEN {Pushed("TYPE_INT", 0), Undefined}
            ELSE IF a = INT_MIN /\ b = -1
            THEN {Pushed("TYPE_INT", INT_MIN), Undefined}
            ELSE {Pushed("TYPE_INT", trunc_div(a, b))}

float_arith(op, x, y) ==
    Pushed("TYPE_FLOAT",
           CASE op = "OP_ADD" -> f_add(x, y)
             [] op = "OP_SUB" -> f_sub(x, y)
             [] op = "OP_MUL" -> f_mul(x, y)
             [] op = "OP_DIV" -> f_div(x, y))

\* case bc::OP_ADD, OP_SUB, OP_MUL, OP_DIV: the outcomes for the operands
\* a = *(_stack_top - 2) and b = *(_stack_top - 1)
arith(op, a, b) ==
    IF a.type = "TYPE_INT"
    THEN IF b.type = "TYPE_FLOAT" THEN {float_arith(op, to_double(a.u), b.u)}
         ELSE IF b.type = "TYPE_INT" THEN int_arith(op, a.u, b.u)
         ELSE {Error}
    ELSE IF a.type = "TYPE_FLOAT"
    THEN IF b.type = "TYPE_FLOAT" THEN {float_arith(op, a.u, b.u)}
         ELSE IF b.type = "TYPE_INT" THEN {float_arith(op, a.u, to_double(b.u))}
         ELSE {Error}
    ELSE {Pushed("TYPE_VOID", 0)}    \* `variant result;` as constructed

ArithOps == {"OP_ADD", "OP_SUB", "OP_MUL", "OP_DIV"}

\* case bc::OP_LOADVOID; the payload of the slot is left as it was
OpLoadVoid ==
    /\ Fetch
    /\ ip' = ip + 1
    /\ _stack' = Append(_stack, [type |-> "TYPE_VOID", u |-> 0])
    /\ last_op' = Executed("OP_LOADVOID", "done")
    /\ UNCHANGED <<_symbol_intern, heap, vm_program, vm_chunk, vm_pc, sym_loads,
                   last_eq, nonvmvars>>

\* case bc::OP_LOADI0, case bc::OP_LOADI1
OpLoadI ==
    /\ Fetch
    /\ ip' = ip + 1
    /\ \E i \in {0, 1} :
        /\ _stack' = Append(_stack, [type |-> "TYPE_INT", u |-> i])
        /\ last_op' = Executed(IF i = 0 THEN "OP_LOADI0" ELSE "OP_LOADI1", "done")
    /\ UNCHANGED <<_symbol_intern, heap, vm_program, vm_chunk, vm_pc, sym_loads,
                   last_eq, nonvmvars>>

\* case bc::OP_DUP
OpDup ==
    /\ Fetch
    /\ Len(_stack) >= 1
    /\ ip' = ip + 1
    /\ _stack' = Append(_stack, _stack[Len(_stack)])
    /\ last_op' = Executed("OP_DUP", "done")
    /\ UNCHANGED <<_symbol_intern, heap, vm_program, vm_chunk, vm_pc, sym_loads,
                   last_eq, nonvmvars>>

\* case bc::OP_ADD, OP_SUB, OP_MUL, OP_DIV
OpArith ==
    /\ Fetch
    /\ Len(_stack) >= 2
    /\ ip' = ip + 1
    /\ \E op \in ArithOps :
       \E r \in arith(op, _stack[Len(_stack) - 1], _stack[Len(_stack)]) :
        /\ last_op' = Executed(op, r.outcome)
        /\ CASE r.outcome = "pushed" ->
                    /\ _stack' = Append(SubSeq(_stack, 1, Len(_stack) - 2),
                                        r.result)
                    /\ UNCHANGED vm_pc
             [] r.outcome = "error" ->
                    /\ vm_pc' = "error"
                    /\ UNCHANGED _stack
             [] r.outcome = "undefined" ->
                    /\ vm_pc' = "undefined"
                    /\ UNCHANGED _stack
    /\ UNCHANGED <<_symbol_intern, heap, vm_program, vm_chunk, sym_loads,
                   last_eq, nonvmvars>>

\* the operands i16_a of the branches of the programs
BranchOffsets == {2, 3}

\* a plausible slip: OP_BRF without its test for TYPE_VOID
branch_int_only(op, v) ==
    IF v.type # "TYPE_INT" /\ v.type # "TYPE_VOID" THEN "error"
    ELSE IF op = "OP_BRF"
    THEN (IF v.type = "TYPE_INT" /\ v.u = 0 THEN "taken" ELSE "not taken")
    ELSE (IF v.type = "TYPE_INT" /\ v.u # 0 THEN "taken" ELSE "not taken")

\* the outcome of OP_BRF and OP_BRT on v = *(_stack_top - 1)
branch(op, v) ==
    IF v.type # "TYPE_INT" /\ v.type # "TYPE_VOID" THEN "error"
    ELSE IF op = "OP_BRF"
    THEN (IF (v.type = "TYPE_INT" /\ v.u = 0) \/ v.type = "TYPE_VOID"
          THEN "taken" ELSE "not taken")
    ELSE (IF v.type = "TYPE_INT" /\ v.u # 0 THEN "taken" ELSE "not taken")

\* case bc::OP_BRF, case bc::OP_BRT: ip++ of the fetch, then ip += i16_a - 1
OpBranch ==
    /\ Fetch
    /\ Len(_stack) >= 1
    /\ \E op \in {"OP_BRF", "OP_BRT"}, i16_a \in BranchOffsets :
        LET r == branch(op, _stack[Len(_stack)])
        IN  /\ last_op' = [Executed(op, r) EXCEPT !.b = _stack[Len(_stack)]] @@
                          [i16_a |-> i16_a]
            /\ ip' = IF r = "taken" THEN (ip + 1) + (i16_a - 1) ELSE ip + 1
            /\ vm_pc' = IF r = "error" THEN "error" ELSE vm_pc
    /\ UNCHANGED <<_stack, _symbol_intern, heap, vm_program, vm_chunk, sym_loads,
                   last_eq, nonvmvars>>

\* case bc::OP_NOT: the value that replaces v = *(_stack_top - 1)
op_not(v) ==
    IF v.type # "TYPE_INT" THEN [type |-> "TYPE_INT", u |-> 0]
    ELSE [type |-> "TYPE_INT", u |-> IF v.u = 0 THEN 1 ELSE 0]

\* case bc::OP_NOT
OpNot ==
    /\ Fetch
    /\ Len(_stack) >= 1
    /\ ip' = ip + 1
    /\ _stack' = [_stack EXCEPT ![Len(_stack)] = op_not(@)]
    /\ last_op' = Executed("OP_NOT", "done")
    /\ UNCHANGED <<_symbol_intern, heap, vm_program, vm_chunk, vm_pc, sym_loads,
                   last_eq, nonvmvars>>

\* the operands i16_a of the jumps of the programs
JmpOffsets == {-1, 0, 2}

\* a plausible slip: the offset counted from the instruction after the jump
jmp_target_next(at, i16_a) == (at + 1) + i16_a

\* the index ip has for a jump fetched at index `at`: ip++ of the fetch,
\* then ip += i16_a - 1
jmp_target(at, i16_a) == (at + 1) + (i16_a - 1)

\* case bc::OP_JMP, for a target inside the chunk
OpJmp ==
    /\ Fetch
    /\ \E i16_a \in JmpOffsets :
        /\ jmp_target(ip, i16_a) >= 0
        /\ ip' = jmp_target(ip, i16_a)
        /\ last_op' = Executed("OP_JMP", "done") @@ [i16_a |-> i16_a]
    /\ UNCHANGED <<_stack, _symbol_intern, heap, vm_program, vm_chunk, vm_pc,
                   sym_loads, last_eq, nonvmvars>>

(***************************************************************************)
(* runner::run at the level of the arrays of the runner, on chunks the     *)
(* generator has written: the slots of _stack keep their contents above    *)
(* _stack_top, and the only frame is _cstack[0].                           *)
(***************************************************************************)
\* variant _stack[256]
StackSlots == 256

\* variant(): type(bc::TYPE_VOID), i32(0)
NewVariant == [type |-> "TYPE_VOID", u |-> 0]

\* call_info has no constructor: _cstack[0].stack_base is whatever the
\* storage of the runner holds; run() never assigns it.  A null pointer, a
\* pointer to foreign memory, or (slot 0) a pointer to _stack[0]
StackBases ==
    {[kind |-> "null", slot |-> 0], [kind |-> "wild", slot |-> 0],
     [kind |-> "stack", slot |-> 0]}

\* the handlers compiled: `on h / return` and
\* `on h a / b = 7 / put 2 + 2 / return b`
FrameHandlers ==
    LET b == ast_expr_identifier(NoPos, <<98>>, "SCOPE_LOCAL")
    IN  {[params |-> <<>>, locals |-> <<>>,
          body |-> <<ast_statement_return(NoPos, nullptr)>>],
         [params |-> << <<97>> >>, locals |-> << <<98>> >>,
          body |-> <<ast_statement_assign(NoPos, b, GenInt(7)),
                     ast_statement_put(NoPos, ast_expr_binop(NoPos, GenInt(2),
                                                            GenInt(2),
                                                            "EXPR_BINOP_ADD")),
                     ast_statement_return(NoPos, b)>>]}

\* generate_chunk on a handler: the instructions and the constants of the
\* chunk
compiled(handler) ==
    LET st == generate_chunk_end(
                  generate_body(handler.body, 1,
                                register_handler(NewScope, handler.params,
                                                 handler.locals)))
    IN  [instrs |-> st.instrs, const_pool |-> st.chunk_consts]

NoInstr == [op |-> "none", a |-> 0, outcome |-> "none"]

\* runner::runner(), the members it does not mention, and a compiled chunk
InitFrameVars ==
    /\ run_code \in {compiled(h) : h \in FrameHandlers}
    /\ mem = [k \in 1..StackSlots |-> NewVariant]
    /\ _stack_top = 0
    /\ stack_base \in StackBases
    /\ run_ip = 0
    /\ run_pc = "idle"
    /\ entry_top = 0
    /\ stored = <<>>
    /\ run_last = NoInstr

\* no runner of this kind exists
FrameIdle ==
    /\ run_code = [instrs |-> <<>>, const_pool |-> <<>>]
    /\ mem = <<>>
    /\ _stack_top = 0
    /\ stack_base = [kind |-> "null", slot |-> 0]
    /\ run_ip = 0
    /\ run_pc = "idle"
    /\ entry_top = 0
    /\ stored = <<>>
    /\ run_last = NoInstr

\* bc::instr istr = *(ip++): the instruction is `istr`
Fetched(istr) ==
    /\ run_pc = "run"
    /\ run_ip < Len(run_code.instrs)
    /\ istr = run_code.instrs[run_ip + 1]

\* the record of the instruction executed
Ran(istr, outcome) == [op |-> istr.op, a |-> istr.a, outcome |-> outcome]

\* *(_stack_top++) = v, for a _stack_top inside the array; a write to
\* _stack[256] is undefined behaviour
push(istr, v) ==
    IF _stack_top < StackSlots
    THEN /\ mem' = [mem EXCEPT ![_stack_top + 1] = v]
         /\ _stack_top' = _stack_top + 1
         /\ run_ip' = run_ip + 1
         /\ run_last' = Ran(istr, "done")
         /\ UNCHANGED run_pc
    ELSE /\ run_pc' = "undefined"
         /\ run_last' = Ran(istr, "overflow")
         /\ UNCHANGED <<mem, _stack_top, run_ip>>

\* an access to _stack[-1] or below: undefined behaviour
underflow(istr) ==
    /\ run_pc' = "undefined"
    /\ run_last' = Ran(istr, "underflow")
    /\ UNCHANGED <<mem, _stack_top, run_ip>>

\* runner::run(start_chunk) up to the loop: _cstack_top = _cstack, the
\* chunk and the ip of _cstack[0]; neither _stack_top nor stack_base
RunnerRun ==
    /\ run_pc = "idle"
    /\ run_pc' = "run"
    /\ run_ip' = 0
    /\ entry_top' = _stack_top
    /\ stored' = <<>>
    /\ UNCHANGED <<run_code, mem, _stack_top, stack_base, run_last, nonframevars>>

\* case bc::OP_LOADVOID (the payload of the slot stays), OP_LOADI0,
\* OP_LOADI1, and OP_LOADC of a number
ExecLoad ==
    /\ \E istr \in {run_code.instrs[k] : k \in DOMAIN run_code.instrs} :
        /\ Fetched(istr)
        /\ CASE istr.op = "OP_LOADVOID" ->
                    push(istr, [type |-> "TYPE_VOID",
                                u |-> IF _stack_top < StackSlots
                                      THEN mem[_stack_top + 1].u ELSE 0])
             [] istr.op = "OP_LOADI0" -> push(istr, [type |-> "TYPE_INT", u |-> 0])
             [] istr.op = "OP_LOADI1" -> push(istr, [type |-> "TYPE_INT", u |-> 1])
             [] istr.op = "OP_LOADC" ->
                    /\ run_code.const_pool[istr.a + 1].type
                           \in {"TYPE_INT", "TYPE_FLOAT"}
                    /\ push(istr, run_code.const_pool[istr.a + 1])
             [] OTHER -> FALSE
    /\ UNCHANGED <<run_code, stack_base, entry_top, stored, nonframevars>>

\* case bc::OP_LOADL: *(_stack_top++) = _cstack_top->stack_base[u16_a];
\* through a null or a foreign stack_base the read is undefined behaviour
ExecLoadL ==
    /\ \E istr \in {run_code.instrs[k] : k \in DOMAIN run_code.instrs} :
        /\ Fetched(istr)
        /\ istr.op = "OP_LOADL"
        /\ IF stack_base.kind # "stack" \/ stack_base.slot + istr.a >= StackSlots
           THEN /\ run_pc' = "undefined"
                /\ run_last' = Ran(istr, "wild")
                /\ UNCHANGED <<mem, _stack_top, run_ip>>
           ELSE push(istr, mem[stack_base.slot + istr.a + 1])
    /\ UNCHANGED <<run_code, stack_base, entry_top, stored, nonframevars>>

\* case bc::OP_STOREL: _cstack_top->stack_base[u16_a] = *(--_stack_top)
ExecStoreL ==
    /\ \E istr \in {run_code.instrs[k] : k \in DOMAIN run_code.instrs} :
        /\ Fetched(istr)
        /\ istr.op = "OP_STOREL"
        /\ IF _stack_top = 0
           THEN underflow(istr) /\ UNCHANGED stored
           ELSE IF stack_base.kind # "stack"
                   \/ stack_base.slot + istr.a >= StackSlots
           THEN /\ run_pc' = "undefined"
                /\ run_last' = Ran(istr, "wild")
                /\ UNCHANGED <<mem, _stack_top, run_ip, stored>>
           ELSE /\ mem' = [mem EXCEPT ![stack_base.slot + istr.a + 1] =
                                          mem[_stack_top]]
                /\ _stack_top' = _stack_top - 1
                /\ stored' = [n \in DOMAIN stored \cup {istr.a} |->
                                 IF n = istr.a THEN mem[_stack_top] ELSE stored[n]]
                /\ run_ip' = run_ip + 1
                /\ run_last' = Ran(istr, "done")
                /\ UNCHANGED run_pc
    /\ UNCHANGED <<run_code, stack_base, entry_top, nonframevars>>

\* case bc::OP_ADD, OP_SUB, OP_MUL, OP_DIV: --_stack_top, then the result
\* over *(_stack_top - 1)
ExecArith ==
    /\ \E istr \in {run_code.instrs[k] : k \in DOMAIN run_code.instrs} :
        /\ Fetched(istr)
        /\ istr.op \in ArithOps
        /\ IF _stack_top < 2 THEN underflow(istr)
           ELSE \E r \in arith(istr.op, mem[_stack_top - 1], mem[_stack_top]) :
                CASE r.outcome = "pushed" ->
                        /\ mem' = [mem EXCEPT ![_stack_top - 1] = r.result]
                        /\ _stack_top' = _stack_top - 1
                        /\ run_ip' = run_ip + 1
                        /\ run_last' = Ran(istr, "done")
                        /\ UNCHANGED run_pc
                  [] OTHER ->
                        /\ run_pc' = r.outcome
                        /\ run_last' = Ran(istr, r.outcome)
                        /\ UNCHANGED <<mem, _stack_top, run_ip>>
    /\ UNCHANGED <<run_code, stack_base, entry_top, stored, nonframevars>>

\* case bc::OP_PUT: stringify(_stack_top - 1); --_stack_top
ExecPut ==
    /\ \E istr \in {run_code.instrs[k] : k \in DOMAIN run_code.instrs} :
        /\ Fetched(istr)
        /\ istr.op = "OP_PUT"
        /\ IF _stack_top = 0 THEN underflow(istr)
           ELSE /\ _stack_top' = _stack_top - 1
                /\ run_ip' = run_ip + 1
                /\ run_last' = Ran(istr, "done")
                /\ UNCHANGED <<mem, run_pc>>
    /\ UNCHANGED <<run_code, stack_base, entry_top, stored, nonframevars>>

\* case bc::OP_RET with _cstack == _cstack_top: _cstack_top = nullptr, the
\* loop ends and run() returns 0
ExecRet ==
    /\ \E istr \in {run_code.instrs[k] : k \in DOMAIN run_code.instrs} :
        /\ Fetched(istr)
        /\ istr.op = "OP_RET"
        /\ run_pc' = "idle"
        /\ run_ip' = run_ip + 1
        /\ run_last' = Ran(istr, "done")
    /\ UNCHANGED <<run_code, mem, _stack_top, stack_base, entry_top, stored,
                   nonframevars>>

(***************************************************************************)
(* Specifications.                                                         *)
(***************************************************************************)
vars == <<lexvars, tokens, parsevars, genvars, vmvars, exprvars, streamvars,
         framevars>>

\* the lexer is not running: parse_tokens has returned
LexIdle ==
    /\ consumed = <<>> /\ eofbit = TRUE /\ ch = EOFCH
    /\ parse_mode = "MODE_NONE"
    /\ wordbuf = <<>>
    /\ num_is_float = FALSE
    /\ make_symlit = FALSE
    /\ strbuf = ""
    /\ tmp_symbol = "SYMBOL_INVALID"
    /\ pos = <<1, 1>>
    /\ word_pos = <<1, 1>>
    /\ lex_pc = "done"
    /\ last_lexeme = "none"
    /\ input_kind = "script"

\* the parser is not running
ParseIdle == InitParseVars /\ input_done = FALSE

\* generate_chunk is not running
GenIdle == InitGenVars /\ ndebug = FALSE

\* no runner is executing
VMIdle == InitVMVars /\ vm_program = {} /\ ExprIdle /\ FrameIdle

InitLex ==
    /\ InitLexVars /\ input_kind = "script"
    /\ tokens = <<>> /\ ParseIdle /\ GenIdle /\ VMIdle

NextLex ==
    \/ LexNone
    \/ LexNumber
    \/ LexWord
    \/ LexSymbol
    \/ LexComment
    \/ LexString
    \/ LexFinish

SpecLex == InitLex /\ [][NextLex]_vars

\* parse_tokens runs to its end: the loop of parse_tokens is sequential
\* code, every iteration that can run does run
SpecLexFair == SpecLex /\ WF_vars(NextLex)

\* parse_tokens is called on a stream that holds one long word
InitLexWord ==
    /\ InitLexVars /\ ch = "a" /\ input_kind = "word"
    /\ tokens = <<>> /\ ParseIdle /\ GenIdle /\ VMIdle

NextLexWord ==
    \/ LexNone
    \/ LexWord
    \/ LexFinish

SpecLexWord == InitLexWord /\ [][NextLexWord]_vars

\* parse_ast is called on a token vector: the empty one, or one whose first
\* chunk has been delivered
InitParse ==
    /\ LexIdle
    /\ GenIdle
    /\ VMIdle
    /\ InitParseVars
    /\ \/ tokens = <<>> /\ input_done = TRUE
       \/ \E c \in Chunks : tokens = Stamp(c, 1, 1, 1) /\ input_done = FALSE

NextParse ==
    \/ ParseDeclaration
    \/ ParseHandlerHeader
    \/ ParseUnexpected
    \/ ParseStatement
    \/ ParseHandlerEnd
    \/ ParseFinish

SpecParse == InitParse /\ [][NextParse]_vars

\* generate_chunk is called on a handler, in a build with or without NDEBUG
InitGen ==
    /\ LexIdle /\ tokens = <<>> /\ ParseIdle
    /\ InitGenVars
    /\ ndebug \in BOOLEAN
    /\ VMIdle

NextGen ==
    \/ GenerateChunkBegin
    \/ GenerateStatement
    \/ GenerateChunkEnd
    \/ CompileAgain

SpecGen == InitGen /\ [][NextGen]_vars

\* a runner has been constructed; run() is called on chunks, again and again
InitVM ==
    /\ LexIdle /\ tokens = <<>> /\ ParseIdle /\ GenIdle
    /\ InitVMVars
    /\ vm_program = InternProgram
    /\ ExprIdle /\ FrameIdle

NextVM ==
    \/ Run
    \/ OpLoadC
    \/ OpEq
    \/ OpPop
    \/ OpRet

SpecVM == InitVM /\ [][NextVM]_vars

\* a runner has been constructed for a script with numbers; run() is called
\* on its chunk
InitArith ==
    /\ LexIdle /\ tokens = <<>> /\ ParseIdle /\ GenIdle
    /\ InitVMVars
    /\ vm_program \in ArithPrograms
    /\ ExprIdle /\ FrameIdle

NextArith ==
    \/ Run
    \/ OpLoadC
    \/ OpLoadVoid
    \/ OpLoadI
    \/ OpDup
    \/ OpArith
    \/ OpEq
    \/ OpBranch
    \/ OpNot
    \/ OpJmp
    \/ OpPop
    \/ OpRet

SpecArith == InitArith /\ [][NextArith]_vars

\* parse_expression is called with the reader at the first token of a line
InitExpr ==
    /\ LexIdle /\ ParseIdle /\ GenIdle /\ InitVMVars /\ vm_program = {}
    /\ FrameIdle
    /\ tokens \in ExprLines
    /\ expr_pc = "ready"
    /\ expr_result = NoResult

NextExpr == ParseExpression

SpecExpr == InitExpr /\ [][NextExpr]_vars

\* a runner has been constructed and a handler compiled; run() is called on
\* the chunk, again and again
InitFrame ==
    /\ LexIdle /\ tokens = <<>> /\ ParseIdle /\ GenIdle
    /\ InitVMVars /\ vm_program = {} /\ ExprIdle
    /\ InitFrameVars

NextFrame ==
    \/ RunnerRun
    \/ ExecLoad
    \/ ExecLoadL
    \/ ExecStoreL
    \/ ExecArith
    \/ ExecPut
    \/ ExecRet

SpecFrame == InitFrame /\ [][NextFrame]_vars

(***************************************************************************)
(* Claims about the lexer.                                                 *)
(***************************************************************************)
IsLineEnd(tok) == tok.type = "TOKEN_LINE_END"

\* C5: the token sequence never begins with a LineEnd and never holds two
\* adjacent LineEnd tokens (blank lines, comment-only lines and line
\* continuations included).
C5_NoLeadingOrDoubleLineEnd ==
    /\ Len(tokens) > 0 => ~IsLineEnd(tokens[1])
    /\ \A i \in 1..(Len(tokens) - 1) :
          ~(IsLineEnd(tokens[i]) /\ IsLineEnd(tokens[i + 1]))

\* a finished run over an input with a blank line between two words
C5_Witness ==
    /\ lex_pc = "done"
    /\ \E i \in 1..(Len(consumed) - 1) : consumed[i] = "\n" /\ consumed[i + 1] = "\n"
    /\ Len(tokens) = 4
    /\ IsLineEnd(tokens[2]) /\ IsLineEnd(tokens[4])

IsLineCont(tok) == is_symbol(tok, "SYMBOL_LINE_CONT")

\* C6: when `\` is the last token emitted before a newline, the newline
\* removes that token and emits no LineEnd, and nothing else changes in the
\* token vector; so while lexing no `\` token is ever followed by a LineEnd.
C6_LineContinuationFolds ==
    /\ [](lex_pc \in {"loop", "comment"} =>
            \A i \in 1..(Len(tokens) - 1) :
                ~(IsLineCont(tokens[i]) /\ IsLineEnd(tokens[i + 1])))
    /\ [][(/\ LoopRuns
           /\ parse_mode = "MODE_NONE"
           /\ ch = "\n"
           /\ Len(tokens) > 0
           /\ IsLineCont(tokens[Len(tokens)]))
          => tokens' = SubSeq(tokens, 1, Len(tokens) - 1)]_vars

\* `a\<newline>a`: both words end up on one line
C6_Witness ==
    /\ lex_pc = "done"
    /\ \E i \in 1..(Len(consumed) - 1) : consumed[i] = "\\" /\ consumed[i + 1] = "\n"
    /\ Len(tokens) = 3
    /\ tokens[1].type = "TOKEN_WORD" /\ tokens[2].type = "TOKEN_WORD"
    /\ IsLineEnd(tokens[3])

\* the characters of the word run that ends at the current character
RawWord ==
    LET n == Len(consumed) - (IF eofbit THEN 0 ELSE 1)
    IN  SubSeq(consumed, n - Len(wordbuf) + 1, n)

LowerCased(s) == [i \in 1..Len(s) |-> tolower(s[i])]

\* C7: `#` is never emitted as a Symbol token; a word run becomes a
\* SymbolLiteral carrying its lower-cased text exactly when `#` is the last
\* lexeme scanned before it, and a Word or Keyword otherwise; the flag is
\* cleared after one word.
C7_SymbolLiteralAfterPound ==
    /\ [](\A i \in 1..Len(tokens) : ~is_symbol(tokens[i], "SYMBOL_POUND"))
    /\ [][(/\ LoopRuns
           /\ parse_mode = "MODE_WORD"
           /\ ~(isalnum(ch) \/ ch = "_"))
          => /\ Len(tokens') = Len(tokens) + 1
             /\ SubSeq(tokens', 1, Len(tokens)) = tokens
             /\ LET t == tokens'[Len(tokens')]
                IN  /\ (t.type = "TOKEN_SYMBOL_LITERAL") <=> (last_lexeme = "SYMBOL_POUND")
                    /\ t.type \in {"TOKEN_SYMBOL_LITERAL", "TOKEN_WORD", "TOKEN_KEYWORD"}
                    /\ t.str = Str(LowerCased(RawWord))
             /\ make_symlit' = FALSE]_vars

\* `# B`: a symbol literal "b" after a `#` and a blank
C7_Witness ==
    /\ lex_pc = "done"
    /\ \E i \in 1..Len(tokens) :
          tokens[i].type = "TOKEN_SYMBOL_LITERAL" /\ tokens[i].str = "b"
    /\ \E i \in 1..(Len(consumed) - 1) : consumed[i] = "#" /\ consumed[i + 1] = " "

\* C8: every token, LineEnd tokens included, carries a 1-indexed position:
\* line >= 1 and column >= 1.
C8_PositionsOneIndexed ==
    \A i \in 1..Len(tokens) : tokens[i].pos[1] >= 1 /\ tokens[i].pos[2] >= 1

(***************************************************************************)
(* Claims about the parser.                                                *)
(***************************************************************************)
PosLess(a, b) == a[1] < b[1] \/ (a[1] = b[1] /\ a[2] < b[2])

RECURSIVE ExprIdents(_)
\* the Identifier nodes of an expression
ExprIdents(e) ==
    CASE e.type = "EXPR_IDENTIFIER" -> {e}
      [] e.type = "EXPR_BINOP" -> ExprIdents(e.left) \cup ExprIdents(e.right)
      [] e.type = "EXPR_UNOP" -> ExprIdents(e.expr)
      [] e.type = "EXPR_DOT" -> ExprIdents(e.expr)
      [] e.type = "EXPR_INDEX" -> ExprIdents(e.expr) \cup ExprIdents(e.index_from)
      [] e.type = "EXPR_CALL" ->
            ExprIdents(e.method) \cup
            UNION {ExprIdents(e.arguments[k]) : k \in 1..Len(e.arguments)}
      [] OTHER -> {}

RECURSIVE Statements(_)
\* the statements of a statement list, nested ones included
Statements(stms) ==
    UNION {{stms[k]} \cup
           (CASE stms[k].type = "STATEMENT_IF" ->
                    Statements(stms[k].else_branch) \cup
                    UNION {Statements(stms[k].branches[b].body) :
                              b \in 1..Len(stms[k].branches)}
              [] stms[k].type \in {"STATEMENT_REPEAT_WHILE", "STATEMENT_REPEAT_TO",
                                   "STATEMENT_REPEAT_IN"} ->
                    Statements(stms[k].body)
              [] OTHER -> {}) : k \in 1..Len(stms)}

\* the expressions a statement holds directly
StmtExprs(s) ==
    CASE s.type = "STATEMENT_ASSIGN" -> {s.lvalue, s.rvalue}
      [] s.type \in {"STATEMENT_RETURN", "STATEMENT_PUT", "STATEMENT_EXPR"} -> {s.expr}
      [] s.type = "STATEMENT_PUT_ON" -> {s.expr, s.target}
      [] s.type = "STATEMENT_IF" ->
            {s.branches[b].condition : b \in 1..Len(s.branches)}
      [] s.type = "STATEMENT_REPEAT_WHILE" -> {s.condition}
      [] s.type = "STATEMENT_REPEAT_TO" -> {s.iterator, s.init, s.to}
      [] s.type = "STATEMENT_REPEAT_IN" -> {s.iterator, s.iterable}
      [] OTHER -> {}

\* the Identifier nodes of a handler body
Idents(stms) ==
    UNION {UNION {ExprIdents(e) : e \in StmtExprs(s)} : s \in Statements(stms)}

\* the node stands for a word written directly before `(`
BeforeLParen(n) ==
    \E j \in 1..(Len(tokens) - 1) :
        tokens[j].pos = n.pos /\ is_symbol(tokens[j + 1], "SYMBOL_LPAREN")

\* the heads of the handler invocation statements (`name arg, arg`)
InvocationHeads(stms) ==
    {s.expr.method :
        s \in {s \in Statements(stms) :
                 /\ s.type = "STATEMENT_EXPR"
                 /\ s.expr.type = "EXPR_CALL"
                 /\ s.expr.method.type = "EXPR_IDENTIFIER"
                 /\ s.expr.method.pos = s.expr.pos}}

CallTarget(stms, n) == BeforeLParen(n) \/ n \in InvocationHeads(stms)

\* Property, else Local, else Global, else none of the three
ResolvedScope(name, properties, params_locals, globals) ==
    IF name \in properties THEN "SCOPE_PROPERTY"
    ELSE IF name \in params_locals THEN "SCOPE_LOCAL"
    ELSE IF name \in globals THEN "SCOPE_GLOBAL"
    ELSE "none"

BodyStart ==
    CHOOSE j \in 1..Len(tokens) :
        /\ tokens[j].type = "TOKEN_LINE_END"
        /\ PosLess(func.pos, tokens[j].pos)
        /\ \A i \in 1..(j - 1) :
              ~(tokens[i].type = "TOKEN_LINE_END" /\ PosLess(func.pos, tokens[i].pos))

\* the tokens of the body consumed so far
BodyTokens == {j \in 1..index : j > BodyStart}

\* <word> = <expr> statements
WordAssigns(stms) ==
    {s \in Statements(stms) :
        /\ s.type = "STATEMENT_ASSIGN"
        /\ s.lvalue.type = "EXPR_IDENTIFIER"
        /\ s.lvalue.pos = s.pos}

\* a word that is neither a member name after `.` nor the name after `the`
ReadPosition(j) ==
    /\ tokens[j].type = "TOKEN_WORD"
    /\ ~is_symbol(tokens[j - 1], "SYMBOL_PERIOD")
    /\ ~is_word(tokens[j - 1], "the")

\* w names nothing in the handler scope as the header left it
UnboundAtHeader(w) ==
    /\ w \notin handler_scope.params
    /\ w \notin handler_scope.globals
    /\ w \notin handler_scope.parent_scope.properties
    /\ w \notin handler_scope.parent_scope.globals

\* C2: for every word w that is unbound in the handler scope when the
\* statement `w = expr` is parsed (here: the first occurrence of w in the
\* body), w is among the locals, and every later read of w in the body
\* parses to an Identifier node with scope Local; the locals of a finished
\* HandlerDecl hold every such w.
C2_AssignedLocalReadsLocal ==
    /\ parse_pc = "body" =>
          \A s \in WordAssigns(func.body) :
              LET w == s.lvalue.identifier
              IN  (/\ UnboundAtHeader(w)
                   /\ ~\E j \in BodyTokens :
                          tokens[j].type = "TOKEN_WORD" /\ tokens[j].str = w
                              /\ PosLess(tokens[j].pos, s.pos))
                  => /\ w \in handler_scope.locals
                     /\ \A j \in BodyTokens :
                           (/\ ReadPosition(j)
                            /\ tokens[j].str = w
                            /\ PosLess(s.pos, tokens[j].pos))
                           => \E n \in Idents(func.body) :
                                 /\ n.pos = tokens[j].pos
                                 /\ n.identifier = w
                                 /\ n.scope = "SCOPE_LOCAL"
    /\ \A k \in 1..Len(root.handlers) :
          LET h == root.handlers[k]
          IN  \A s \in WordAssigns(h.body) :
                  (/\ s.lvalue.scope = "SCOPE_LOCAL"
                   /\ s.lvalue.identifier \notin SeqRange(h.params))
                  => s.lvalue.identifier \in SeqRange(h.locals)

\* ---- words in atom position, told from the tokens ----
StmtStart(j) ==
    \/ j = BodyStart + 1
    \/ tokens[j - 1].type = "TOKEN_LINE_END"
    \/ is_keyword(tokens[j - 1], "KEYWORD_THEN")
    \/ is_keyword(tokens[j - 1], "KEYWORD_ELSE")

AssignTarget(j) == StmtStart(j) /\ is_symbol(tokens[j + 1], "SYMBOL_EQUAL")

InvocationHead(j) ==
    /\ StmtStart(j)
    /\ \/ tokens[j + 1].type \in {"TOKEN_LINE_END", "TOKEN_WORD", "TOKEN_STRING",
                                  "TOKEN_FLOAT", "TOKEN_INTEGER"}
       \/ is_symbol(tokens[j + 1], "SYMBOL_POUND")

Iterator(j) == is_word(tokens[j - 1], "with")

\* the token is on the header line of a repeat statement, whose rest after
\* the header expressions is discarded unparsed
OnRepeatLine(j) ==
    \E r \in BodyTokens :
        /\ r <= j
        /\ is_word(tokens[r], "repeat")
        /\ StmtStart(r)
        /\ \A e \in r..j : tokens[e].type # "TOKEN_LINE_END"

\* a word where an operand is expected: not a word of the statement
\* syntax, not a member name, not the target of `w = expr`, not the head of
\* a handler invocation statement, not a repeat iterator, not discarded
AtomWord(j) ==
    /\ ReadPosition(j)
    /\ tokens[j].word_id = "WORD_ID_UNKNOWN"
    /\ ~AssignTarget(j)
    /\ ~InvocationHead(j)
    /\ ~Iterator(j)
    /\ OnRepeatLine(j) => \E n \in Idents(func.body) : n.pos = tokens[j].pos

\* w names something visible in the handler scope when token j is parsed:
\* a param, property or global, the target of an earlier `w = expr`
\* statement, or the iterator of a repeat statement
BoundBefore(j, w) ==
    \/ ~UnboundAtHeader(w)
    \/ \E b \in BodyTokens :
          /\ b < j
          /\ tokens[b].type = "TOKEN_WORD" /\ tokens[b].str = w
          /\ \/ Iterator(b)
             \/ /\ AssignTarget(b)
                /\ \E e \in (b + 1)..(j - 1) : tokens[e].type = "TOKEN_LINE_END"

\* C3: the parser never gets past a word in atom position that is not a
\* built-in constant, names nothing visible in the handler scope and is not
\* followed by `(` (parse_ast fails with a parse error); when the next token
\* is `(` the word is accepted as an Identifier with scope Local.
C3_UndeclaredReadRejected ==
    parse_pc = "body" =>
        \A j \in BodyTokens :
            (AtomWord(j) /\ tokens[j].str \notin BuiltinConstants)
            => IF is_symbol(tokens[j + 1], "SYMBOL_LPAREN")
               THEN \E n \in Idents(func.body) :
                       /\ n.pos = tokens[j].pos
                       /\ n.identifier = tokens[j].str
                       /\ n.scope = "SCOPE_LOCAL"
               ELSE BoundBefore(j, tokens[j].str)

\* `on h`, `f(1) = 1`, `put y`: the undeclared f before `(` was accepted as
\* a Local, the undeclared y is a parse error
C3_Witness ==
    /\ parse_pc = "error"
    /\ error.msg = "use of undeclared variable 'y'"
    /\ \E n \in Idents(func.body) :
          /\ n.identifier = "f"
          /\ n.scope = "SCOPE_LOCAL"
          /\ BeforeLParen(n)
          /\ UnboundAtHeader("f")
          /\ "f" \notin handler_scope.locals

\* C4: a statement `<expr> = <expr>` is accepted only if its left
\* expression is an Identifier, a dot expression or an index expression; no
\* accepted assignment has a call, a literal or an operator expression as
\* its lvalue.
C4_LvalueKinds ==
    \A stms \in {func.body} \cup {root.handlers[k].body : k \in 1..Len(root.handlers)} :
        \A s \in Statements(stms) :
            s.type = "STATEMENT_ASSIGN"
            => s.lvalue.type \in {"EXPR_IDENTIFIER", "EXPR_DOT", "EXPR_INDEX"}

(***************************************************************************)
(* Claims about the constant pool of the bytecode generator.               *)
(***************************************************************************)
\* the pool key of a literal node: the constant type and the value
LitKey(e) ==
    CASE e.literal_type = "EXPR_LITERAL_FLOAT" -> [type |-> "TYPE_FLOAT", v |-> e.floatv]
      [] e.literal_type = "EXPR_LITERAL_INTEGER" -> [type |-> "TYPE_INT", v |-> e.intv]
      [] e.literal_type = "EXPR_LITERAL_STRING" -> [type |-> "TYPE_STRING", v |-> e.str]
      [] e.literal_type = "EXPR_LITERAL_SYMBOL" -> [type |-> "TYPE_SYMBOL", v |-> e.str]
SymKey(name) == [type |-> "TYPE_SYMBOL", v |-> name]
KeyEq(a, b) == a.type = b.type /\ a.v = b.v
\* the integer literals lowered to LOADI0 / LOADI1
FastInt(key) == key.type = "TYPE_INT" /\ key.v \in {0, 1}

\* the expressions directly below an expression or a statement
SubExprs(e) ==
    CASE e.type = "EXPR_LIST" -> e.items
      [] e.type = "EXPR_CALL" -> e.arguments
      [] e.type = "EXPR_BINOP" -> <<e.left, e.right>>
      [] e.type = "EXPR_UNOP" -> <<e.expr>>
      [] e.type = "STATEMENT_ASSIGN" -> <<e.rvalue, e.lvalue>>
      [] e.type \in {"STATEMENT_PUT", "STATEMENT_EXPR"} -> <<e.expr>>
      [] e.type = "STATEMENT_RETURN" -> IF e.expr = nullptr THEN <<>> ELSE <<e.expr>>
      [] OTHER -> <<>>

\* the keys of the literal occurrences (integer, float, string, symbol) in a
\* sequence of statements or expressions, one per occurrence
RECURSIVE LitOccurrences(_, _)
LitOccurrences(es, k) ==
    IF k > Len(es) THEN <<>>
    ELSE (IF es[k].type = "EXPR_LITERAL"
          THEN (IF es[k].literal_type = "EXPR_LITERAL_VOID" THEN <<>>
                ELSE <<LitKey(es[k])>>)
          ELSE LitOccurrences(SubExprs(es[k]), 1))
         \o LitOccurrences(es, k + 1)

\* the keys get_literal / get_symbol is called for, in a build that runs on
\* past its assert(false): the literals other than 0, 1 and void, the names
\* of global and property identifiers, and "add" for a list; nothing inside
\* the expressions and statements whose lowering is not implemented
RECURSIVE PoolRequests(_, _)
PoolRequests(es, k) ==
    IF k > Len(es) THEN <<>>
    ELSE (CASE es[k].type = "EXPR_LITERAL" ->
                  IF es[k].literal_type = "EXPR_LITERAL_VOID" \/ FastInt(LitKey(es[k]))
                  THEN <<>> ELSE <<LitKey(es[k])>>
            [] es[k].type = "EXPR_IDENTIFIER" ->
                  IF es[k].scope \in {"SCOPE_GLOBAL", "SCOPE_PROPERTY"}
                  THEN <<SymKey(es[k].identifier)>> ELSE <<>>
            [] es[k].type = "EXPR_LIST" ->
                  <<SymKey(<<97, 100, 100>>)>> \o PoolRequests(es[k].items, 1)
            [] es[k].type \in {"STATEMENT_ASSIGN", "STATEMENT_PUT", "STATEMENT_EXPR",
                               "STATEMENT_RETURN", "EXPR_BINOP", "EXPR_UNOP"} ->
                  PoolRequests(SubExprs(es[k]), 1)
            [] OTHER -> <<>>)
         \o PoolRequests(es, k + 1)

BodyLiterals == LitOccurrences(gen_handler.body, 1)
Occurrences(key) ==
    Cardinality({i \in 1..Len(BodyLiterals) : KeyEq(BodyLiterals[i], key)})

\* the string a pool entry points to, read back from the bytes of the pool
PoolString(off) ==
    LET size == gen_scope.string_pool[off + 1] + 256 * gen_scope.string_pool[off + 2]
    IN  SubSeq(gen_scope.string_pool, off + SizeofSizeT + 1, off + SizeofSizeT + size)
EntryKey(k) ==
    LET c == gen_scope.chunk_consts[k]
    IN  [type |-> c.type,
         v |-> IF c.type \in {"TYPE_STRING", "TYPE_SYMBOL"} THEN PoolString(c.u)
               ELSE c.u]
\* the number of pool entries equal to a literal
Matching(key) ==
    Cardinality({k \in 1..Len(gen_scope.chunk_consts) : KeyEq(EntryKey(k), key)})

\* C9 (as amended): the constant pool never holds two entries of the same
\* type and value, whatever get_literal / get_symbol calls were made and in
\* whatever order; every literal of the handler's body, however often it
\* occurs, has at most one equal entry, and none if it is the integer 0 or
\* 1; and every value get_literal / get_symbol was called for has exactly one
\* equal entry.
C9_PoolDeduplicated ==
    gen_pc # "aborted" =>
        /\ \A k1, k2 \in 1..Len(gen_scope.chunk_consts) :
               k1 # k2 => ~KeyEq(EntryKey(k1), EntryKey(k2))
        /\ \A i \in 1..Len(BodyLiterals) :
               /\ Matching(BodyLiterals[i]) <= 1
               /\ FastInt(BodyLiterals[i]) => Matching(BodyLiterals[i]) = 0
        /\ LET requests == PoolRequests(gen_handler.body, 1)
           IN  \A i \in 1..Len(requests) : Matching(requests[i]) = 1

\* a chunk has been generated for a handler in which the string "a" occurs
\* twice and the symbol #a occurs too: the pool holds one string entry and
\* one symbol entry with these characters
C9_Witness ==
    /\ gen_pc = "done"
    /\ Occurrences([type |-> "TYPE_STRING", v |-> <<97>>]) >= 2
    /\ Occurrences(SymKey(<<97>>)) >= 1
    /\ Matching([type |-> "TYPE_STRING", v |-> <<97>>]) = 1
    /\ Matching(SymKey(<<97>>)) = 1
    /\ chunk_header.nconsts = 2

\* C9 as stated: once a chunk is generated, every literal that occurs twice
\* or more in the handler's body has exactly one equal entry in the pool
C9_AsStated ==
    gen_pc = "done" =>
        \A i \in 1..Len(BodyLiterals) :
            Occurrences(BodyLiterals[i]) >= 2 => Matching(BodyLiterals[i]) = 1

(***************************************************************************)
(* Claims about symbol interning in the VM.                                *)
(***************************************************************************)
\* the symbol LOADCs that pushed the reference of a stack value
LoadsOf(v) == {l \in sym_loads : v.type = "TYPE_SYMBOL" /\ l.ref = v.u}

\* C10: within one runner, any two executions of LOADC on symbol constants
\* with the same characters - of the same or of different constants, in the
\* same or in different runs - push the same reference; EQ on two such
\* values gives Int 1; and the intern table never holds two entries with the
\* same spelling and different references.
C10_SymbolsInterned ==
    /\ \A l1, l2 \in sym_loads : l1.chars = l2.chars => l1.ref = l2.ref
    /\ (/\ last_eq.done
        /\ \E l1 \in LoadsOf(last_eq.a), l2 \in LoadsOf(last_eq.b) :
               l1.chars = l2.chars)
       => last_eq.res = [type |-> "TYPE_INT", u |-> 1]
    /\ \A e1, e2 \in _symbol_intern : e1.key = e2.key => e1.value = e2.value

\* EQ has compared two symbols loaded from different constants with the same
\* characters, while a second spelling with the same hash is interned too
C10_Witness ==
    /\ last_eq.done
    /\ \E l1 \in LoadsOf(last_eq.a), l2 \in LoadsOf(last_eq.b) :
           /\ l1.chars = l2.chars
           /\ <<l1.chunk, l1.idx>> # <<l2.chunk, l2.idx>>
           /\ l1.ref = l2.ref
           /\ \E e \in _symbol_intern :
                  /\ e.key # l1.chars
                  /\ string_hash(e.key) = string_hash(l1.chars)
                  /\ e.value # l1.ref
    /\ last_eq.res = [type |-> "TYPE_INT", u |-> 1]


\* ---------------------------------------------------------------------
\* Arithmetic, equality and branches of the VM
\* ---------------------------------------------------------------------
\* the instruction executed last was op on two Ints
OnInts(op) ==
    /\ last_op.op = op
    /\ last_op.a.type = "TYPE_INT" /\ last_op.b.type = "TYPE_INT"
\* the instruction executed last replaced its operands by the value v
Replaced(v) ==
    /\ last_op.outcome = "pushed"
    /\ vm_pc = "run"
    /\ Len(_stack) >= 1 /\ _stack[Len(_stack)] = v

\* C11, as the specification states it: ADD on (Int a, Int b) pushes the
\* Int a + b reduced modulo 2^32 into the signed range, and DIV on
\* (Int a, Int b) with b # 0 pushes the Int quotient truncated toward zero.
\* The run violates it where a + b overflows and where INT_MIN is divided by
\* -1: the behaviour of the signed operation is undefined there.
C11_AsStated ==
    /\ OnInts("OP_ADD") =>
          Replaced([type |-> "TYPE_INT", u |-> wrap_add(last_op.a.u, last_op.b.u)])
    /\ OnInts("OP_DIV") /\ last_op.b.u # 0 =>
          /\ ~(last_op.a.u = INT_MIN /\ last_op.b.u = -1)
          /\ Replaced([type |-> "TYPE_INT",
                       u |-> trunc_div(last_op.a.u, last_op.b.u)])

Numeric(v) == v.type \in {"TYPE_INT", "TYPE_FLOAT"}

\* C12, as the specification states it: whenever an operand of ADD, SUB,
\* MUL or DIV, the first-pushed A or the second-pushed B, is neither an Int
\* nor a Float, the run stops with a runtime error and pushes no result.
\* The run violates it where A is not a number: no branch of the handler is
\* taken, and the Void `result` replaces the operands without an error.
C12_AsStated ==
    (/\ last_op.op \in ArithOps
     /\ ~Numeric(last_op.a) \/ ~Numeric(last_op.b))
        => last_op.outcome = "error" /\ vm_pc = "error"

\* C13, as the specification states it: DIV on two Ints whose divisor is 0
\* makes the run report a runtime error (its `return 1`), neither computing
\* a quotient nor entering an undefined state.  The run violates it: the
\* handler divides without a test of the divisor.
C13_AsStated ==
    OnInts("OP_DIV") /\ last_op.b.u = 0
        => last_op.outcome = "error" /\ vm_pc = "error"

\* C14, as the specification states it: EQ with the same value x as both
\* operands pushes Int 1, whatever the type of x.  The run violates it for a
\* Float: under a->type == TYPE_FLOAT the handler compares with a String
\* only, and res stays false for two Floats.
C14_AsStated ==
    last_eq.done /\ last_eq.a = last_eq.b
        => last_eq.res = [type |-> "TYPE_INT", u |-> 1]

\* C15, as the specification states it: for every pair of values x and y,
\* EQ on (x, y) and EQ on (y, x) push the same Int result.  The handler's
\* outcome is the same in both orders, but it is no Int where a String that
\* is not a number meets an Int or a Float: std::stoi or std::stod throws
\* out of run() in both orders and nothing is pushed.
C15_AsStated ==
    last_op.op = "OP_EQ" =>
        LET swapped == op_eq(last_op.b, last_op.a, heap)
        IN  /\ last_op.outcome = "done"
            /\ ~swapped.thrown
            /\ last_eq.res = [type |-> "TYPE_INT",
                              u |-> IF swapped.res THEN 1 ELSE 0]

\* the branch executed last went to its target, the instruction i16_a after
\* the branch; it fell through to the instruction after the branch
Transferred == vm_pc = "run" /\ ip = last_op.ip + last_op.i16_a
FellThrough == vm_pc = "run" /\ ip = last_op.ip + 1

\* C16: BRT transfers control to its target exactly when the top of the
\* stack is an Int other than 0, BRF exactly when it is Int 0 or Void; on an
\* Int or a Void that does not transfer, the run goes on after the branch;
\* on a value of any other type both stop the run with an error.  Neither
\* pops the value.
C16_Branches ==
    last_op.op \in {"OP_BRT", "OP_BRF"} =>
        LET v == last_op.b
            int == v.type = "TYPE_INT"
            void == v.type = "TYPE_VOID"
        IN  /\ _stack # <<>> /\ _stack[Len(_stack)] = v
            /\ last_op.op = "OP_BRT" => (Transferred <=> int /\ v.u # 0)
            /\ last_op.op = "OP_BRF" => (Transferred <=> (int /\ v.u = 0) \/ void)
            /\ int \/ void => Transferred \/ FellThrough
            /\ ~int /\ ~void => vm_pc = "error" /\ last_op.outcome = "error"

\* BRF has transferred control on a Void
C16_Witness ==
    /\ last_op.op = "OP_BRF"
    /\ last_op.b.type = "TYPE_VOID"
    /\ Transferred


\* ---------------------------------------------------------------------
\* compile_bytecode: the parsed handlers handed to generate_chunk
\* ---------------------------------------------------------------------
\* the characters of the std::string that holds a name of the scripts
c_str(name) ==
    CASE name = "f" -> <<102>> [] name = "g" -> <<103>> [] name = "h" -> <<104>>
      [] name = "i" -> <<105>> [] name = "p" -> <<112>>
      [] name = "pi" -> <<112, 105>> [] name = "y" -> <<121>>
c_strs(names) == [k \in DOMAIN names |-> c_str(names[k])]

\* operator< of std::string on the characters of two names
RECURSIVE string_less(_, _)
string_less(a, b) ==
    IF b = <<>> THEN FALSE
    ELSE IF a = <<>> THEN TRUE
    ELSE IF Head(a) # Head(b) THEN Head(a) < Head(b)
    ELSE string_less(Tail(a), Tail(b))

\* the scope of generate_chunk for the parsed handler h once its names are
\* registered; the name the chunk's name table has for a slot; the slot
\* that reads and writes of a name use
RegisteredScope(h) == register_handler(NewScope, c_strs(h.params), c_strs(h.locals))
SlotName(st, slot) == const_str(st.string_pool, st.local_name_refs[slot + 1])
SlotOf(st, name) == st.local_indices[c_str(name)]
Occupies(st, name, slot) ==
    /\ slot < Len(st.local_name_refs)
    /\ SlotName(st, slot) = c_str(name)
    /\ SlotOf(st, name) = slot
\* the first slot after the parameters, declared or implicit
FirstLocalSlot(h) == IF Len(h.params) = 0 THEN 1 ELSE Len(h.params)

ParamSlots(h) ==
    LET st == RegisteredScope(h)
    IN  /\ \A j \in 1..Len(h.params) : Occupies(st, h.params[j], j - 1)
        /\ Len(h.params) = 0 =>
              /\ SlotName(st, 0) = MeImplicit
              /\ chunk_nargs(c_strs(h.params)) = 1
        /\ Len(st.local_name_refs) = FirstLocalSlot(h) + Len(h.locals)

\* C18: in the chunk of every parsed handler the declared parameters occupy
\* the slots 0..p-1 in declaration order, and the handler's locals the slots
\* that follow, in the ascending order of their names as std::string
\* compares them, whatever the order in which the body introduced them;
\* with zero parameters "me (implicit)" occupies slot 0 and nargs is 1.
C18_LocalSlots ==
    \A k \in 1..Len(root.handlers) :
        LET h == root.handlers[k]
            st == RegisteredScope(h)
            intro == introduced_at[k]
        IN  /\ ParamSlots(h)
            /\ \A j \in 1..Len(intro) :
                  /\ SlotOf(st, intro[j]) \in
                        FirstLocalSlot(h)..(FirstLocalSlot(h) + Len(intro) - 1)
                  /\ Occupies(st, intro[j], SlotOf(st, intro[j]))
            /\ \A i, j \in 1..Len(intro) :
                  string_less(c_str(intro[i]), c_str(intro[j]))
                      => SlotOf(st, intro[i]) < SlotOf(st, intro[j])

\* a handler without parameters was parsed whose body introduced two
\* locals, the greater name first
C18_Witness ==
    \E k \in 1..Len(root.handlers) :
        /\ Len(root.handlers[k].params) = 0
        /\ Len(introduced_at[k]) = 2
        /\ string_less(c_str(introduced_at[k][2]), c_str(introduced_at[k][1]))

\* C18, as the specification states it: the locals occupy the slots after
\* the parameters in the order in which the body first introduced them.
C18_AsStated ==
    \A k \in 1..Len(root.handlers) :
        LET h == root.handlers[k]
            st == RegisteredScope(h)
        IN  /\ ParamSlots(h)
            /\ \A j \in 1..Len(introduced_at[k]) :
                  Occupies(st, introduced_at[k][j], FirstLocalSlot(h) + j - 1)

\* C17, as the specification states it: two compilations of the same source
\* both fail, or both succeed with chunks that are the same byte for byte.
\* The chunks differ in the bytes of the constants that no constructor of
\* bc::chunk_const writes and generate_chunk copies into the chunk.
C17_AsStated == gen_pc = "again" => out_again = out


\* ---------------------------------------------------------------------
\* parse_expression: unary minus and the grouping of binary operators
\* ---------------------------------------------------------------------
IsNumber(tok) == is_a(tok, "TOKEN_INTEGER") \/ is_a(tok, "TOKEN_FLOAT")

\* the Literal node of the value -v for the number token lit of value v
FoldedLiteral(minus, lit) ==
    IF is_a(lit, "TOKEN_INTEGER")
    THEN literal_make_int(minus.pos, 0 - lit.integer)
    ELSE literal_make_float(minus.pos, <<0 - lit.number[1], lit.number[2]>>)

\* C19, as the specification states it: for a unary `-` directly followed by
\* an integer or float literal of value v the parser consumes both tokens,
\* yields one Literal node of value -v and no unary-op node, and goes on
\* with the token after the literal.  On the line `- v` the parser tests the
\* token after the literal instead and yields the unary-op node.
C19_AsStated ==
    (/\ expr_pc = "parsed"
     /\ Len(tokens) = 3
     /\ is_symbol(tokens[1], "SYMBOL_MINUS")
     /\ IsNumber(tokens[2]))
        => expr_result = Ret(2, FoldedLiteral(tokens[1], tokens[2]))

\* the line is atom (operator atom)*: numbers at the odd places, binary
\* operators at the even places, then the LineEnd
Operands(toks) == {k \in 1..(Len(toks) - 1) : k % 2 = 1}
Operators(toks) == {k \in 1..(Len(toks) - 1) : k % 2 = 0}
IsBinaryOperator(tok) ==
    \/ tok.type = "TOKEN_SYMBOL" /\ tok.str \in {"=", "&", "+", "-", "*"}
    \/ tok.type = "TOKEN_KEYWORD" /\ tok.str = "and"
AtomsAndOperators(toks) ==
    /\ Len(toks) % 2 = 0
    /\ \A k \in Operands(toks) : IsNumber(toks[k])
    /\ \A k \in Operators(toks) : IsBinaryOperator(toks[k])

\* the level table: comparison loosest, then concatenation, then + and -,
\* then *, /, mod, and, or
LevelOf(tok) ==
    CASE tok.str \in {"=", "<>", "<", ">", "<=", ">="} -> 0
      [] tok.str \in {"&", "&&"} -> 1
      [] tok.str \in {"+", "-"} -> 2
      [] tok.str \in {"*", "/", "mod", "and", "or"} -> 3

AtomNode(tok) ==
    IF is_a(tok, "TOKEN_INTEGER") THEN literal_make_int(tok.pos, tok.integer)
    ELSE literal_make_float(tok.pos, tok.number)

\* the tree of the tokens lo..hi: split at the last operator of the loosest
\* level present, which makes the levels nest and each level group from
\* left to right
RECURSIVE Grouped(_, _, _)
Grouped(toks, lo, hi) ==
    IF lo = hi THEN AtomNode(toks[lo])
    ELSE LET ops == {k \in Operators(toks) : lo < k /\ k < hi}
             loosest == {k \in ops : \A j \in ops : LevelOf(toks[k]) <= LevelOf(toks[j])}
             split == CHOOSE k \in loosest : \A j \in loosest : j <= k
         IN  ast_expr_binop(toks[split].pos,
                            Grouped(toks, lo, split - 1),
                            Grouped(toks, split + 1, hi),
                            binop_of(toks[split]))

\* C20: for a line of atoms and binary operators parse_expression returns
\* the tree that groups the operands by the level table and the operators
\* of one level from left to right, with the reader at the LineEnd.
C20_Grouping ==
    expr_pc = "parsed" /\ AtomsAndOperators(tokens)
        => expr_result = Ret(Len(tokens) - 1, Grouped(tokens, 1, Len(tokens) - 1))

\* a + b * c was parsed as a + (b * c)
C20_Witness ==
    /\ expr_pc = "parsed"
    /\ Len(tokens) = 6 /\ AtomsAndOperators(tokens)
    /\ is_symbol(tokens[2], "SYMBOL_PLUS") /\ is_symbol(tokens[4], "SYMBOL_STAR")
    /\ expr_result.ok
    /\ expr_result.e.op = "EXPR_BINOP_ADD"
    /\ expr_result.e.right.type = "EXPR_BINOP"
    /\ expr_result.e.right.op = "EXPR_BINOP_MUL"

(***************************************************************************)
(* Claims about the result of the generator and about the operand-stack    *)
(* balance of the code it emits.                                           *)
(***************************************************************************)
\* the statements and the expressions whose lowering is an assert(false)
UnloweredTypes ==
    {"STATEMENT_PUT_ON", "STATEMENT_EXIT_REPEAT", "STATEMENT_NEXT_REPEAT",
     "STATEMENT_IF", "STATEMENT_REPEAT_WHILE", "STATEMENT_REPEAT_TO",
     "STATEMENT_REPEAT_IN", "STATEMENT_CASE",
     "EXPR_PROP_LIST", "EXPR_CALL", "EXPR_DOT", "EXPR_INDEX"}

\* a statement or an expression of es[k..] is, or contains at a place the
\* generator visits, one of those shapes
RECURSIVE HasUnlowered(_, _)
HasUnlowered(es, k) ==
    IF k > Len(es) THEN FALSE
    ELSE \/ es[k].type \in UnloweredTypes
         \/ (es[k].type \notin UnloweredTypes /\ HasUnlowered(SubExprs(es[k]), 1))
         \/ HasUnlowered(es, k + 1)

\* C21: generate_bytecode returns true with one chunk per handler, or false
\* with an error; a handler whose body holds a shape the generator cannot
\* lower ends in the error result, and the process is never aborted.
\* (generate_statement reaches assert(false) for these shapes: the process
\* aborts, or with NDEBUG the shape is skipped and the result is true.)
C21_AsStated ==
    /\ gen_pc # "aborted"
    /\ HasUnlowered(gen_handler.body, 1) => gen_pc = "error"

\* the values an instruction pops and the values it pushes, by the opcode
\* table; DUP reads the top before it pushes the copy, OCALL pops the
\* receiver and its b arguments
stack_pops(i) ==
    CASE i.op \in {"OP_LOADVOID", "OP_LOADI0", "OP_LOADI1", "OP_LOADC", "OP_LOADL",
                   "OP_LOADL0", "OP_LOADG", "OP_THE", "OP_NEWLLIST"} -> 0
      [] i.op \in {"OP_RET", "OP_POP", "OP_DUP", "OP_STOREL", "OP_STOREG", "OP_UNM",
                   "OP_NOT", "OP_PUT"} -> 1
      [] i.op \in {"OP_ADD", "OP_SUB", "OP_MUL", "OP_DIV", "OP_MOD", "OP_EQ",
                   "OP_LT", "OP_GT", "OP_LTE", "OP_GTE", "OP_AND", "OP_OR",
                   "OP_CONCAT", "OP_CONCATSP", "OP_OIDXG"} -> 2
      [] i.op = "OP_OIDXS" -> 3
      [] i.op = "OP_OCALL" -> i.b + 1
stack_pushes(i) ==
    CASE i.op \in {"OP_RET", "OP_POP", "OP_STOREL", "OP_STOREG", "OP_PUT",
                   "OP_OIDXS"} -> 0
      [] i.op = "OP_DUP" -> 2
      [] OTHER -> 1

\* the walk over instrs[k..] from the depth, the lowest depth and the
\* verdict on the RETs in w: the depth relative to the start, the lowest
\* depth an instruction popped down to, and whether every RET was met at
\* depth 1
RECURSIVE stack_walk(_, _, _)
stack_walk(instrs, k, w) ==
    IF k > Len(instrs) THEN w
    ELSE LET i == instrs[k]
             popped == w.depth - stack_pops(i)
         IN  stack_walk(instrs, k + 1,
                        [depth |-> popped + stack_pushes(i),
                         low |-> IF popped < w.low THEN popped ELSE w.low,
                         rets |-> w.rets /\ (i.op = "OP_RET" => w.depth = 1)])
StackEffect(instrs) == stack_walk(instrs, 1, [depth |-> 0, low |-> 0, rets |-> TRUE])

\* the expressions generate_expr is called on, not as the target of an
\* assignment, below the statements and expressions es[k..]
RECURSIVE LoadedExprs(_, _)
LoadedExprs(es, k) ==
    IF k > Len(es) THEN <<>>
    ELSE LET e == es[k]
             below == IF e.type = "STATEMENT_ASSIGN" THEN <<e.rvalue>>
                      ELSE IF e.type \in UnloweredTypes THEN <<>>
                      ELSE SubExprs(e)
         IN  (IF e.type \in {"STATEMENT_ASSIGN", "STATEMENT_PUT", "STATEMENT_EXPR",
                             "STATEMENT_RETURN"} THEN <<>> ELSE <<e>>)
             \o LoadedExprs(below, 1) \o LoadedExprs(es, k + 1)

\* the scope generate_statement works in when the body starts
BodyScope == register_handler(NewScope, gen_handler.params, gen_handler.locals)

\* every expression of the body lowers to code of net effect +1 that never
\* pops below its start
ExprsPushOne(body) ==
    \A k \in DOMAIN LoadedExprs(body, 1) :
        LET e == LoadedExprs(body, 1)[k]
            w == StackEffect(generate_expr(e, BodyScope, FALSE).instrs)
        IN  w.depth = 1 /\ w.low >= 0

\* every assignment, put and expression statement of the body lowers to
\* code of net effect 0
StatementsBalanced(body) ==
    \A k \in DOMAIN body :
        body[k].type \in {"STATEMENT_ASSIGN", "STATEMENT_PUT", "STATEMENT_EXPR"} =>
            StackEffect(generate_statement(body[k], BodyScope).instrs).depth = 0

\* C22: in a chunk the generator has written, every expression lowered to
\* code of net stack effect +1 that never pops below its start, every
\* assignment, put and expression statement to code of net effect 0, and
\* the depth before every RET is 1 above the depth at entry.
\* (With NDEBUG a call, dot, index or property-list expression lowers to no
\* code at all: see C21.)
C22_AsStated ==
    out.written =>
        /\ ExprsPushOne(gen_handler.body)
        /\ StatementsBalanced(gen_handler.body)
        /\ StackEffect(out.instrs).rets

(***************************************************************************)
(* Claims about the branches, the jump and NOT of the VM.                  *)
(***************************************************************************)
\* C23: BRT and BRF on an Int or a Void remove that value: the stack is one
\* shorter after the instruction than before it, taken or not.
\* (OP_BRF and OP_BRT only read *(_stack_top - 1).)
C23_AsStated ==
    (/\ last_op.op \in {"OP_BRT", "OP_BRF"}
     /\ last_op.b.type \in {"TYPE_INT", "TYPE_VOID"})
        => Len(_stack) = last_op.depth - 1

\* C24: after a JMP at index i with offset d the run goes on at index
\* i + 1 + d; with offset 0, at the instruction after the JMP.
\* (OP_JMP adds i16_a - 1 to the ip the fetch has incremented.)
C24_AsStated ==
    last_op.op = "OP_JMP" =>
        /\ vm_pc = "run"
        /\ ip = last_op.ip + 1 + last_op.i16_a

\* C25: NOT replaces an Int 0 or a Void by Int 1 and an Int other than 0 by
\* Int 0, the depth unchanged; on a value of any other type it stops the
\* run with an error.
\* (OP_NOT stores Int 0 over every value that is not an Int.)
C25_AsStated ==
    last_op.op = "OP_NOT" =>
        LET v == last_op.b
            falsy == (v.type = "TYPE_INT" /\ v.u = 0) \/ v.type = "TYPE_VOID"
            truthy == v.type = "TYPE_INT" /\ v.u # 0
            top == _stack[Len(_stack)]
        IN  /\ falsy => /\ Len(_stack) = last_op.depth
                        /\ top = [type |-> "TYPE_INT", u |-> 1]
            /\ truthy => /\ Len(_stack) = last_op.depth
                         /\ top = [type |-> "TYPE_INT", u |-> 0]
            /\ ~falsy /\ ~truthy => vm_pc = "error"

\* C24 (as the code has it): after a JMP at index i with offset d the run
\* goes on at index i + d: offset 1 continues with the instruction after
\* the JMP, offset 0 executes the JMP again.
C24_Jump ==
    last_op.op = "OP_JMP" =>
        /\ vm_pc = "run"
        /\ ip = last_op.ip + last_op.i16_a
        /\ Len(_stack) = last_op.depth

\* a JMP with offset 0 was executed at an index other than 0 and is the
\* next instruction again
C24_Witness ==
    /\ last_op.op = "OP_JMP"
    /\ last_op.i16_a = 0
    /\ last_op.ip > 0
    /\ ip = last_op.ip

(***************************************************************************)
(* Claims about the termination of the lexer and about its scratch buffer. *)
(***************************************************************************)
\* parse_tokens has returned true; it has returned false
LexReturned == lex_pc \in {"done", "error"}

\* C26: parse_tokens terminates on every finite input: it returns true
\* with the tokens or false with an error, also when the input ends inside
\* a string literal, a comment, a word, a number or a symbol run.
\* (At end of file next_char delivers '\n' for ever, and MODE_STRING is
\* left by a '"' only.)
C26_AsStated == <>LexReturned

\* C30: every index written into wordbuf is below 64.
\* (Nothing compares wordbuf_i with the size of the array.)
C30_AsStated ==
    /\ lex_pc # "undefined"
    /\ Len(wordbuf) <= WordbufSize

(***************************************************************************)
(* Claims about the operand stack and the frame of the runner.             *)
(***************************************************************************)
\* C27: while run() executes a chunk the generator has written, no
\* instruction pushes onto a full stack of 256 values and none pops or
\* reads the top of an empty one.
\* (No instruction compares _stack_top with the ends of _stack.)
C27_AsStated == run_last.outcome \notin {"overflow", "underflow"}

\* C28: LOADL n pushes the value the last STOREL n of this activation
\* wrote, whatever was pushed and popped in between.
\* (run() never assigns stack_base, and the operands of an expression are
\* pushed from _stack_top on, which run() does not move past the locals.)
C28_AsStated ==
    (run_last.op = "OP_LOADL" /\ run_last.a \in DOMAIN stored) =>
        /\ run_last.outcome = "done"
        /\ mem[_stack_top] = stored[run_last.a]

\* C29: a call of run() that returns normally leaves _stack_top where it
\* was when the call began.
\* (The OP_RET of the outermost frame breaks out of the switch before the
\* --_stack_top it shares with OP_POP.)
C29_AsStated ==
    (run_last.op = "OP_RET" /\ run_pc = "idle") => _stack_top = entry_top

====
